---------------------------- MODULE Spec2Model ----------------------------
(***************************************************************************)
(* A model of the observable forwarding pipeline of ccproxy:               *)
(*   - the Router (proxy/handler.go) with its retry loop and the           *)
(*     retryable-error classification,                                     *)
(*   - the Health Monitor (proxy/health_check.go) and its fastest-healthy  *)
(*     selection,                                                          *)
(*   - the logging middleware's response-writer wrapper,                   *)
(*   - the Hub (websocket/simple_hub.go): broadcast channel, dispatch      *)
(*     loop, per-record send tasks, subscriber teardown,                   *)
(*   - the Journal (storage/history.go): append with rotation.             *)
(*                                                                         *)
(* Times are in milliseconds.  Strings that the code inspects character    *)
(* by character are sequences of one-character strings.                    *)
(***************************************************************************)
EXTENDS Integers, Sequences, FiniteSets, TLC

(***************************************************************************)
(* Bounds of the model.                                                    *)
(***************************************************************************)
\* probes per URL
MaxChecks == 2
\* largest probe response time
MaxResponseTime == 2
\* config.Proxy.MaxRetries of the modelled configuration
MaxRetries == 2
\* config.WebSocket.BroadcastSize of the modelled configuration
BroadcastSize == 1
\* Broadcast calls in one run
MaxBroadcasts == 2
\* subscribers that connect in one run
MaxClients == 2
\* maxLines / maxFiles handed to NewHistoryStorage in the modelled Hub
MaxLines == 1
MaxFiles == 1
\* seconds the wall clock advances in one run
MaxClock == 2
\* request tasks that can be inside Hub.Broadcast at the same time
MaxTasks == 2
\* ClearHistory calls in one run
MaxClears == 1

(***************************************************************************)
(* Program constants.                                                      *)
(***************************************************************************)
\* time.Hour, the initial fastestTime of GetFastestHealthyURL
Hour == 3600000
\* scanner.Buffer(buf, 1024*1024): the longest line countLines can scan
MaxTokenSize == 1048576
\* Hub.maxHistory
maxHistory == 20

\* the lines readMessagesFromFile keeps of one file
TailLines == 1000
\* handleHistory: the limit when the parameter is absent or not usable, and
\* the largest limit
DefaultLimit == 50
MaxLimit == 100

StatusOK == 200
StatusMethodNotAllowed == 405
StatusInternalServerError == 500
StatusNotFound == 404
StatusBadGateway == 502
StatusServiceUnavailable == 503

(***************************************************************************)
(* Strings: strings.ToLower and strings.Contains.                          *)
(***************************************************************************)
Letters ==
  << <<"A","a">>, <<"B","b">>, <<"C","c">>, <<"D","d">>, <<"E","e">>,
     <<"F","f">>, <<"G","g">>, <<"H","h">>, <<"I","i">>, <<"J","j">>,
     <<"K","k">>, <<"L","l">>, <<"M","m">>, <<"N","n">>, <<"O","o">>,
     <<"P","p">>, <<"Q","q">>, <<"R","r">>, <<"S","s">>, <<"T","t">>,
     <<"U","u">>, <<"V","v">>, <<"W","w">>, <<"X","x">>, <<"Y","y">>,
     <<"Z","z">> >>

ToLowerChar(c) ==
  IF \E i \in 1..Len(Letters) : Letters[i][1] = c
  THEN Letters[CHOOSE i \in 1..Len(Letters) : Letters[i][1] = c][2]
  ELSE c

ToUpperChar(c) ==
  IF \E i \in 1..Len(Letters) : Letters[i][2] = c
  THEN Letters[CHOOSE i \in 1..Len(Letters) : Letters[i][2] = c][1]
  ELSE c

ToLower(s) == [i \in 1..Len(s) |-> ToLowerChar(s[i])]

ToUpper(s) == [i \in 1..Len(s) |-> ToUpperChar(s[i])]

Contains(s, substr) ==
  \E i \in 0..(Len(s) - Len(substr)) : SubSeq(s, i + 1, i + Len(substr)) = substr

(***************************************************************************)
(* ProxyHandler.isRetryableError.                                          *)
(***************************************************************************)
retryableErrors ==
  << <<"u","n","e","x","p","e","c","t","e","d"," ","E","O","F">>,
     <<"c","o","n","n","e","c","t","i","o","n"," ","r","e","s","e","t"," ","b","y"," ","p","e","e","r">>,
     <<"n","o"," ","s","u","c","h"," ","h","o","s","t">>,
     <<"t","i","m","e","o","u","t">>,
     <<"n","e","t","w","o","r","k"," ","i","s"," ","u","n","r","e","a","c","h","a","b","l","e">>,
     <<"c","o","n","n","e","c","t","i","o","n"," ","r","e","f","u","s","e","d">>,
     <<"t","e","m","p","o","r","a","r","y"," ","f","a","i","l","u","r","e">> >>

isRetryableError(errStr) ==
  \E k \in 1..Len(retryableErrors) :
     Contains(ToLower(errStr), retryableErrors[k])


(***************************************************************************)
(* Error messages the Forwarder can surface (forwardRequest wraps the      *)
(* cause with fmt.Errorf).                                                 *)
(***************************************************************************)
HTTPClientErrorPrefix ==
  <<"H","T","T","P"," ","c","l","i","e","n","t"," ","e","r","r","o","r",":"," ">>

CopyBodyErrorPrefix ==
  <<"f","a","i","l","e","d"," ","t","o"," ","c","o","p","y"," ","r","e","s","p","o","n","s","e"," ","b","o","d","y",":"," ">>

\* io.ErrUnexpectedEOF
ErrUnexpectedEOF == <<"u","n","e","x","p","e","c","t","e","d"," ","E","O","F">>

\* syscall.ECONNRESET as net.OpError prints it
ErrConnReset == <<"r","e","a","d",":"," ","c","o","n","n","e","c","t","i","o","n"," ","r","e","s","e","t"," ","b","y"," ","p","e","e","r">>

\* context.Canceled
ErrCanceled == <<"c","o","n","t","e","x","t"," ","c","a","n","c","e","l","e","d">>

Causes == {ErrUnexpectedEOF, ErrConnReset, ErrCanceled}

(***************************************************************************)
(* The route table (config.Proxy.Targets after processTargetURLs): one     *)
(* Route with two upstream URLs and one Route with a single URL.           *)
(***************************************************************************)
Targets ==
  << [Path |-> "/multi",  TargetURL |-> "A", TargetURLs |-> <<"A", "B">>],
     [Path |-> "/single", TargetURL |-> "B", TargetURLs |-> <<"B">>] >>

Range(seq) == {seq[i] : i \in 1..Len(seq)}

AllURLs == UNION {Range(Targets[t].TargetURLs) : t \in 1..Len(Targets)}

VARIABLES
  \* ---- retryable-error classification (a pure function and its input)
  errStr,         \* err.Error() handed to isRetryableError
  verdict,        \* "none" before the call, then "retry" or "stop"
  \* ---- Health Monitor
  urlHealthMap,   \* HealthChecker.urlHealthMap: URL -> URLHealth
  \* ---- one request through middleware, Router and Forwarder
  reqPc,          \* "idle", "routing", "forwarding", "handled", "done"
  reqRoute,       \* index of the Route findTarget returned, 0 for nil
  fastestURL,     \* the URL selectFastestURL returned ("" before)
  attempt,        \* loop variable of forwardRequestWithRetry
  upstream,       \* the Forwarder calls of this request, in order
  wrapped,        \* responseWriterCapture: statusCode, targetURL
  clientStatus,   \* status the underlying ResponseWriter sent, 0 if none yet
  routerError,    \* status of the http.Error the Router issued, 0 if none
  logStatus,      \* LogMessage.StatusCode handed to Hub.Broadcast, 0 if none
  \* ---- Hub
  clients,        \* Hub.clients: the registered subscribers
  broadcast,      \* Hub.broadcast: the records in the channel, oldest first
  nBroadcast,     \* Broadcast calls so far; the k-th record has id k
  sending,        \* the record a Broadcast call is about to offer to the
                  \* channel, <<>> when no call is in progress
  dropped,        \* ids of the records the channel did not take
  stats,          \* Hub.stats
  history,        \* Hub.history, the in-memory ring
  sendTasks,      \* started and unfinished `go client.sendMessage(message)`
  removeTasks,    \* started and unfinished `go c.hub.removeClient(c)`
  client,         \* per subscriber: Client.closed, its connection, its reader
  written,        \* per subscriber: ids of the frames written to its conn
  \* ---- Journal
  files,          \* the data directory: file name -> lines
  filePath,       \* HistoryStorage.filePath
  now,            \* the wall clock, in seconds since start
  appendErr,      \* what the last AppendMessage returned ("" before any)
  \* ---- locks of the Hub
  hubMu,          \* Hub.mu: "free", or the subscriber whose removeClient
                  \* task holds it
  clientMu,       \* per subscriber: Client.mu, "free" or the id of the
                  \* record whose sendMessage task holds it
  \* ---- Broadcast calls of concurrent request tasks
  calls,          \* per request task: its position in Hub.Broadcast and
                  \* the record it passes
  counted,        \* the records updateStats has counted, in counting order
  \* ---- history API
  nClear,         \* ClearHistory calls so far
  clearErr,       \* what the last Hub.ClearHistory returned ("" before any)
  clearedAt,      \* nBroadcast at the last successful ClearHistory
  reply,          \* the last answer of handleHistory
  \* ---- one probe cycle of the Health Monitor
  probe,          \* performHealthCheck: configured path, attempts, result
  \* ---- the request in the Router and what the client and the log get
  request,        \* r.URL.Path, r.Method, r.URL.RawQuery of the request
  clientBody,     \* the writes to the body of the client's response
  logTargetURL,   \* LogMessage.TargetURL handed to Hub.Broadcast
  \* ---- start-up: one entry of proxy.targets from the file to its probers
  cfg,            \* the entry as read, as normalized, and its probers
  \* ---- the frames on the subscribers' connections
  dequeued,       \* the records Hub.Run has taken from the channel, each
                  \* with the subscribers it started a send for
  wire,           \* per subscriber: the frames written to its conn, as bytes
  \* ---- the request body on its way to the upstream
  rBody,          \* r.Body of the request: the reader and its position
  requestBody,    \* the bytes LoggerMiddleware.ServeHTTP read from r.Body
  upstreamBodies, \* the body of the upstream request of every attempt
  \* ---- the copy of one upstream response body to the client
  relay           \* forwardRequest from WriteHeader on: the strategy, the
                  \* upstream body still to come, what the client has

retryVars  == <<errStr, verdict>>
healthVars == <<urlHealthMap>>
reqVars    == <<reqPc, reqRoute, fastestURL, attempt, upstream, wrapped,
                clientStatus, routerError, logStatus>>
hubVars    == <<clients, broadcast, nBroadcast, sending, dropped, stats,
                history, sendTasks, removeTasks, client, written>>
journalVars == <<files, filePath, now, appendErr>>
lockVars   == <<hubMu, clientMu>>
callVars   == <<calls, counted>>
apiVars    == <<nClear, clearErr, clearedAt, reply>>
probeVars  == <<probe>>
routerVars == <<request, clientBody, logTargetURL>>
configVars == <<cfg>>
frameVars == <<dequeued, wire>>
bodyVars == <<rBody, requestBody, upstreamBodies>>
relayVars == <<relay>>
vars == <<retryVars, healthVars, reqVars, hubVars, journalVars, lockVars,
          callVars, apiVars, probeVars, routerVars, configVars, frameVars, bodyVars, relayVars>>

(***************************************************************************)
(* Health Monitor.                                                         *)
(***************************************************************************)
\* HealthChecker.initializeURLHealth: the record StartHealthChecks creates
InitialURLHealth ==
  [IsHealthy |-> TRUE, ResponseTime |-> 0, ErrorCount |-> 0, TotalChecks |-> 0,
   SuccessChecks |-> 0, AverageTime |-> 0, MinTime |-> 0, MaxTime |-> 0]

\* the record updateHealthStatus creates for a URL it has not seen
FreshURLHealth ==
  [IsHealthy |-> FALSE, ResponseTime |-> 0, ErrorCount |-> 0, TotalChecks |-> 0,
   SuccessChecks |-> 0, AverageTime |-> 0, MinTime |-> Hour, MaxTime |-> 0]

\* a variant of RollingAverage that adds without dividing
RollingSum(health, successChecks, responseTime) ==
  health.AverageTime + responseTime

\* the rolling average of successful response times
RollingAverage(health, successChecks, responseTime) ==
  IF successChecks = 1
  THEN responseTime
  ELSE (health.AverageTime * (successChecks - 1) + responseTime) \div successChecks

\* HealthChecker.updateHealthStatus on one URLHealth record
UpdatedHealth(health, isHealthy, responseTime) ==
  LET timed   == responseTime > 0
      success == IF timed /\ isHealthy THEN health.SuccessChecks + 1
                 ELSE health.SuccessChecks
  IN [IsHealthy     |-> isHealthy,
      ResponseTime  |-> responseTime,
      TotalChecks   |-> health.TotalChecks + 1,
      MinTime       |-> IF timed /\ (health.MinTime > responseTime \/ health.MinTime = 0)
                        THEN responseTime ELSE health.MinTime,
      MaxTime       |-> IF timed /\ health.MaxTime < responseTime
                        THEN responseTime ELSE health.MaxTime,
      SuccessChecks |-> success,
      AverageTime   |-> IF timed /\ isHealthy
                        THEN RollingAverage(health, success, responseTime)
                        ELSE health.AverageTime,
      ErrorCount    |-> IF isHealthy THEN 0 ELSE health.ErrorCount + 1]

\* a variant of ResponseTimeToUse that always compares the last response time
ResponseTimeLast(health) == health.ResponseTime

\* the metric GetFastestHealthyURL compares for a healthy URL
ResponseTimeToUse(health) ==
  IF health.AverageTime > 0 THEN health.AverageTime ELSE health.ResponseTime

\* the loop of GetFastestHealthyURL from position i on
RECURSIVE FastestScan(_, _, _, _, _, _)
FastestScan(m, urls, i, fastest, fastestTime, healthyCount) ==
  IF i > Len(urls)
  THEN IF healthyCount = 0 /\ Len(urls) > 0 THEN urls[1] ELSE fastest
  ELSE IF urls[i] \notin DOMAIN m
  THEN urls[i]
  ELSE LET health == m[urls[i]]
       IN IF health.IsHealthy
          THEN IF ResponseTimeToUse(health) < fastestTime
               THEN FastestScan(m, urls, i + 1, urls[i],
                                ResponseTimeToUse(health), healthyCount + 1)
               ELSE FastestScan(m, urls, i + 1, fastest, fastestTime,
                                healthyCount + 1)
          ELSE FastestScan(m, urls, i + 1, fastest, fastestTime, healthyCount)

GetFastestHealthyURL(m, urls) == FastestScan(m, urls, 1, "", Hour, 0)

\* a variant of selectFastestURL that always takes the primary target_url
selectPrimaryURL(m, target) == target.TargetURL

\* a variant of selectFastestURL that consults health for a single URL too
selectHealthyURL(m, target) ==
  IF Len(target.TargetURLs) > 1 THEN GetFastestHealthyURL(m, target.TargetURLs)
  ELSE IF Len(target.TargetURLs) = 1
  THEN IF target.TargetURLs[1] \in DOMAIN m /\ ~m[target.TargetURLs[1]].IsHealthy
       THEN ""
       ELSE target.TargetURLs[1]
  ELSE target.TargetURL

\* ProxyHandler.selectFastestURL
selectFastestURL(m, target) ==
  IF Len(target.TargetURLs) > 1 THEN GetFastestHealthyURL(m, target.TargetURLs)
  ELSE IF Len(target.TargetURLs) = 1 THEN target.TargetURLs[1]
  ELSE target.TargetURL

\* one probe cycle of runPeriodicHealthCheck: checkURLHealth stores what
\* performHealthCheck measured
CheckURLHealth(url, isHealthy, responseTime) ==
  /\ LET health == IF url \in DOMAIN urlHealthMap THEN urlHealthMap[url]
                   ELSE FreshURLHealth
     IN /\ health.TotalChecks < MaxChecks
        /\ urlHealthMap' =
             [u \in DOMAIN urlHealthMap \cup {url} |->
                IF u = url THEN UpdatedHealth(health, isHealthy, responseTime)
                ELSE urlHealthMap[u]]
  /\ UNCHANGED <<retryVars, relayVars, bodyVars, frameVars, lockVars, callVars, apiVars, probeVars, configVars, routerVars, reqVars, hubVars, journalVars>>


(***************************************************************************)
(* Logging middleware: the response-writer wrapper and the writer under    *)
(* it.                                                                     *)
(***************************************************************************)
\* responseWriterCapture.WriteHeader: rw.statusCode = code
CapturedStatus(w, code) == code

\* rw.ResponseWriter.WriteHeader(code): net/http sends the first status and
\* ignores every later WriteHeader of the same response
SentStatus(sent, code) == IF sent = 0 THEN code ELSE sent

\* the wrapper after WriteHeader(code)
WriteHeaderWrapped(w, code) == [w EXCEPT !.statusCode = CapturedStatus(w, code)]

\* LoggerMiddleware.ServeHTTP up to the call of the inner handler: the
\* wrapper is created; findTarget's result is the input r (0 = no Route)
LoggerServeHTTP(r) ==
  /\ reqPc \in {"idle", "done"}
  /\ reqPc' = "routing"
  /\ reqRoute' = r
  /\ wrapped' = [statusCode |-> StatusOK, targetURL |-> ""]
  /\ clientStatus' = 0
  /\ fastestURL' = ""
  /\ attempt' = 0
  /\ upstream' = <<>>
  /\ routerError' = 0
  /\ logStatus' = 0
  /\ clientBody' = <<>>
  /\ logTargetURL' = ""
  /\ UNCHANGED <<retryVars, relayVars, bodyVars, frameVars, lockVars, callVars, apiVars, probeVars, configVars, request, healthVars, hubVars, journalVars>>

\* a variant of RouterError after which the request is over without the
\* middleware's log
RouterErrorUnlogged(text, code) ==
  /\ wrapped' = WriteHeaderWrapped(wrapped, code)
  /\ clientStatus' = SentStatus(clientStatus, code)
  /\ clientBody' = Append(clientBody, text)
  /\ routerError' = code
  /\ reqPc' = "idle"

\* http.Error(w, text, code) by the Router, which ends ProxyHandler.ServeHTTP:
\* WriteHeader(code), then the text is written to the body
RouterError(text, code) ==
  /\ wrapped' = WriteHeaderWrapped(wrapped, code)
  /\ clientStatus' = SentStatus(clientStatus, code)
  /\ clientBody' = Append(clientBody, text)
  /\ routerError' = code
  /\ reqPc' = "handled"

\* ProxyHandler.ServeHTTP from findTarget to the call of
\* forwardRequestWithRetry
ProxyServeHTTP ==
  /\ reqPc = "routing"
  /\ IF reqRoute = 0
     THEN /\ RouterError("Not Found", StatusNotFound)
          /\ UNCHANGED fastestURL
     ELSE LET url == selectFastestURL(urlHealthMap, Targets[reqRoute])
          IN /\ fastestURL' = url
             /\ IF url = ""
                THEN RouterError("Service Unavailable", StatusServiceUnavailable)
                ELSE /\ wrapped' = [wrapped EXCEPT !.targetURL = url]
                     /\ reqPc' = "forwarding"
                     /\ UNCHANGED <<clientStatus, routerError, clientBody>>
  /\ UNCHANGED <<retryVars, relayVars, bodyVars, frameVars, lockVars, callVars, apiVars, probeVars, configVars, request, logTargetURL, healthVars, hubVars, journalVars, reqRoute, attempt, upstream, logStatus>>

(***************************************************************************)
(* The Forwarder's outcomes: the upstream call fails before any response   *)
(* ("doErr"), the response is relayed in full ("ok"), or the status is     *)
(* written and copying the body then fails ("copyErr").                    *)
(***************************************************************************)
UpstreamStatuses == {StatusOK, StatusBadGateway}

Outcomes ==
  [kind : {"ok"}, status : UpstreamStatuses, err : {<<>>}]
  \cup [kind : {"doErr"}, status : {0},
        err : {HTTPClientErrorPrefix \o c : c \in Causes}]
  \cup [kind : {"copyErr"}, status : UpstreamStatuses,
        err : {CopyBodyErrorPrefix \o c : c \in Causes}]

\* whether the loop of forwardRequestWithRetry goes round again after an
\* attempt that returned err
RetriesAfter(att, err) == isRetryableError(err) /\ att < MaxRetries

\* what one forwardRequest call writes to the body of the response: the
\* upstream's body when it is relayed in full, the part copied before the
\* copy failed, nothing when the upstream call itself failed
BodyWritten(o) ==
  IF o.kind = "ok" THEN <<"upstream body">>
  ELSE IF o.kind = "copyErr" THEN <<"part of upstream body">>
  ELSE <<>>

\* one iteration of the loop of forwardRequestWithRetry: one forwardRequest
\* call with outcome o, and, when the loop ends, the rest of ServeHTTP
ForwardAttempt(o) ==
  /\ reqPc = "forwarding"
  /\ upstream' = Append(upstream, o)
  /\ LET w1 == IF o.kind = "doErr" THEN wrapped
               ELSE WriteHeaderWrapped(wrapped, o.status)
         c1 == IF o.kind = "doErr" THEN clientStatus
               ELSE SentStatus(clientStatus, o.status)
         b1 == clientBody \o BodyWritten(o)
     IN IF o.kind = "ok"
        THEN /\ wrapped' = w1
             /\ clientStatus' = c1
             /\ clientBody' = b1
             /\ reqPc' = "handled"
             /\ UNCHANGED <<attempt, routerError>>
        ELSE IF RetriesAfter(attempt, o.err)
        THEN /\ wrapped' = w1
             /\ clientStatus' = c1
             /\ clientBody' = b1
             /\ attempt' = attempt + 1
             /\ UNCHANGED <<reqPc, routerError>>
        ELSE /\ wrapped' = WriteHeaderWrapped(w1, StatusBadGateway)
             /\ clientStatus' = SentStatus(c1, StatusBadGateway)
             /\ clientBody' = Append(b1, "Bad Gateway")
             /\ routerError' = StatusBadGateway
             /\ reqPc' = "handled"
             /\ UNCHANGED attempt
  /\ UNCHANGED <<retryVars, relayVars, bodyVars, frameVars, lockVars, callVars, apiVars, probeVars, configVars, request, logTargetURL, healthVars, hubVars, journalVars, reqRoute, fastestURL, logStatus>>

\* LoggerMiddleware.ServeHTTP after the inner handler returned: the
\* LogMessage takes wrapped.statusCode and goes to Hub.Broadcast
LogRequest ==
  /\ reqPc = "handled"
  /\ logStatus' = wrapped.statusCode
  /\ logTargetURL' = wrapped.targetURL
  /\ reqPc' = "done"
  /\ UNCHANGED <<retryVars, relayVars, bodyVars, frameVars, lockVars, callVars, apiVars, probeVars, configVars, request, clientBody, healthVars, hubVars, journalVars, reqRoute, fastestURL, attempt, upstream,
                 wrapped, clientStatus, routerError>>

(***************************************************************************)
(* The request body: LoggerMiddleware.ServeHTTP reads it for the log, and  *)
(* every forwardRequest call reads it again for its upstream request.      *)
(***************************************************************************)
\* a request without a Body
NilBody == [nil |-> TRUE, data |-> <<>>, off |-> 0]

\* io.NopCloser(bytes.NewReader(data)), and the Body net/http hands over
NewReader(data) == [nil |-> FALSE, data |-> data, off |-> 0]

\* io.ReadAll(body): the bytes from the reader's position to its end
ReadAll(body) == SubSeq(body.data, body.off + 1, Len(body.data))

\* the reader after io.ReadAll
Drained(body) == [body EXCEPT !.off = Len(body.data)]

\* a variant of readAndCacheBody that leaves r.Body as io.ReadAll left it
readAndCacheBodyNoRestore(body) ==
  IF body.nil THEN [bodyBytes |-> <<>>, body |-> body]
  ELSE [bodyBytes |-> ReadAll(body), body |-> Drained(body)]

\* ProxyHandler.readAndCacheBody: the bytes read and the new r.Body
readAndCacheBody(body) ==
  IF body.nil THEN [bodyBytes |-> <<>>, body |-> body]
  ELSE [bodyBytes |-> ReadAll(body), body |-> NewReader(ReadAll(body))]

\* the request bodies of the modelled clients
ClientBodies == {NilBody, NewReader(<<>>), NewReader(<<1>>), NewReader(<<1, 2>>)}

\* LoggerMiddleware.ServeHTTP up to the call of the inner handler, for a
\* request with this Body
ReceiveBody(r, body) ==
  /\ reqPc \in {"idle", "done"}
  /\ reqPc' = "routing"
  /\ reqRoute' = r
  /\ requestBody' = IF body.nil THEN <<>> ELSE ReadAll(body)
  /\ rBody' = IF body.nil THEN body ELSE NewReader(ReadAll(body))
  /\ upstreamBodies' = <<>>
  /\ wrapped' = [statusCode |-> StatusOK, targetURL |-> ""]
  /\ clientStatus' = 0
  /\ fastestURL' = ""
  /\ attempt' = 0
  /\ upstream' = <<>>
  /\ routerError' = 0
  /\ logStatus' = 0
  /\ clientBody' = <<>>
  /\ logTargetURL' = ""
  /\ UNCHANGED <<retryVars, relayVars, frameVars, lockVars, callVars, apiVars, probeVars,
                 configVars, request, healthVars, hubVars, journalVars>>

\* one iteration of the loop of forwardRequestWithRetry with the request
\* body: forwardRequest reads and restores r.Body, sends the bytes upstream
\* and ends with outcome o
ForwardBody(o) ==
  /\ reqPc = "forwarding"
  /\ upstream' = Append(upstream, o)
  /\ rBody' = readAndCacheBody(rBody).body
  /\ upstreamBodies' = Append(upstreamBodies, readAndCacheBody(rBody).bodyBytes)
  /\ LET w1 == IF o.kind = "doErr" THEN wrapped
               ELSE WriteHeaderWrapped(wrapped, o.status)
         c1 == IF o.kind = "doErr" THEN clientStatus
               ELSE SentStatus(clientStatus, o.status)
         b1 == clientBody \o BodyWritten(o)
     IN IF o.kind = "ok"
        THEN /\ wrapped' = w1
             /\ clientStatus' = c1
             /\ clientBody' = b1
             /\ reqPc' = "handled"
             /\ UNCHANGED <<attempt, routerError>>
        ELSE IF RetriesAfter(attempt, o.err)
        THEN /\ wrapped' = w1
             /\ clientStatus' = c1
             /\ clientBody' = b1
             /\ attempt' = attempt + 1
             /\ UNCHANGED <<reqPc, routerError>>
        ELSE /\ wrapped' = WriteHeaderWrapped(w1, StatusBadGateway)
             /\ clientStatus' = SentStatus(c1, StatusBadGateway)
             /\ clientBody' = Append(b1, "Bad Gateway")
             /\ routerError' = StatusBadGateway
             /\ reqPc' = "handled"
             /\ UNCHANGED attempt
  /\ UNCHANGED <<retryVars, relayVars, frameVars, lockVars, callVars, apiVars, probeVars,
                 configVars, request, logTargetURL, healthVars, hubVars,
                 journalVars, reqRoute, fastestURL, logStatus, requestBody>>

(***************************************************************************)
(* The response body: forwardRequest chooses how to copy it, and the copy  *)
(* loop reads from the upstream and writes to the client.  A byte is named *)
(* by its position in the upstream body; bytes in a row are kept as one    *)
(* pair <<first, last>>.                                                   *)
(***************************************************************************)
TextEventStream == <<"t","e","x","t","/","e","v","e","n","t","-","s","t","r","e","a","m">>
NDJSON == <<"a","p","p","l","i","c","a","t","i","o","n","/","x","-","n","d","j","s","o","n">>
TextPlain == <<"t","e","x","t","/","p","l","a","i","n">>
Chunked == <<"c","h","u","n","k","e","d">>

\* forwardRequest: whether the response is copied by streamResponse
isStreaming(contentType, transferEncoding, contentLength) ==
  \/ Contains(contentType, TextEventStream)
  \/ Contains(contentType, NDJSON)
  \/ Contains(transferEncoding, Chunked)
  \/ contentLength = -1
  \/ Contains(contentType, TextPlain)

\* a variant of streamResponse that does not ask for the Flusher
streamResponseAlways(contentType, flusher) ==
  IF Contains(contentType, TextEventStream) THEN "sse" ELSE "bytes"

\* streamResponse: the loop it hands the body to
streamResponse(contentType, flusher) ==
  IF ~flusher THEN "copy"
  ELSE IF Contains(contentType, TextEventStream) THEN "sse"
  ELSE "bytes"

\* the loop that copies the body
CopyStrategy(contentType, transferEncoding, contentLength, flusher) ==
  IF isStreaming(contentType, transferEncoding, contentLength)
  THEN streamResponse(contentType, flusher)
  ELSE "copy"

\* the buffer of the loop: streamSSEResponse, streamBytesResponse, io.Copy
BufferSize(strategy) ==
  IF strategy = "sse" THEN 1024 ELSE IF strategy = "bytes" THEN 64 ELSE 32768

\* whether the loop calls flusher.Flush() after a write
Flushes(strategy) == strategy \in {"sse", "bytes"}

\* a variant of LoopEnds that goes on after a failed write
LoopEndsOnReadOnly(writeOk, readErr) == readErr # "nil"

\* whether an iteration of the copy loop is the last: the write failed, or
\* Read returned io.EOF or an error
LoopEnds(writeOk, readErr) == ~writeOk \/ readErr # "nil"

\* the client's bytes after the bytes first..last were written
AppendBytes(bytes, first, last) ==
  IF last < first THEN bytes
  ELSE IF bytes # <<>> /\ bytes[Len(bytes)][2] = first - 1
  THEN [bytes EXCEPT ![Len(bytes)] = <<@[1], last>>]
  ELSE Append(bytes, <<first, last>>)

RECURSIVE SumSeq(_)
SumSeq(s) == IF s = <<>> THEN 0 ELSE Head(s) + SumSeq(Tail(s))

IdleRelay ==
  [pc |-> "idle", contentType |-> <<>>, transferEncoding |-> <<>>,
   contentLength |-> 0, flusher |-> TRUE, strategy |-> "copy",
   segments |-> <<>>, end |-> "EOF", total |-> 0, off |-> 0, client |-> <<>>,
   reads |-> 0, writes |-> 0, flushes |-> 0, maxChunk |-> 0,
   failed |-> FALSE, atFailure |-> <<0, 0, 0>>, err |-> "none"]

\* forwardRequest from w.WriteHeader to the start of the copy loop; the
\* upstream body arrives in the given segments and ends with io.EOF or with
\* an error
RelayStart(contentType, transferEncoding, contentLength, flusher, segments, end) ==
  /\ relay.pc \in {"idle", "done"}
  /\ relay' = [IdleRelay EXCEPT
                 !.pc = "copying",
                 !.contentType = contentType,
                 !.transferEncoding = transferEncoding,
                 !.contentLength = contentLength,
                 !.flusher = flusher,
                 !.strategy = CopyStrategy(contentType, transferEncoding,
                                           contentLength, flusher),
                 !.segments = segments,
                 !.end = end,
                 !.total = SumSeq(segments)]
  /\ UNCHANGED <<retryVars, bodyVars, frameVars, lockVars, callVars, apiVars,
                 probeVars, configVars, routerVars, healthVars, reqVars,
                 hubVars, journalVars>>

\* one iteration of the copy loop: body.Read(buffer), then w.Write of the
\* bytes read, which succeeds or fails after part of them, then Flush;
\* withEnd says whether Read reports the end together with the last bytes
RelayStep(writeOk, withEnd) ==
  /\ relay.pc = "copying"
  /\ IF relay.segments = <<>>
     THEN relay' = [relay EXCEPT
                      !.reads = @ + 1,
                      !.pc = "done",
                      !.err = IF relay.end = "EOF" THEN "none" ELSE "read"]
     ELSE LET buf  == BufferSize(relay.strategy)
              n    == IF Head(relay.segments) < buf THEN Head(relay.segments)
                      ELSE buf
              rest == IF n = Head(relay.segments) THEN Tail(relay.segments)
                      ELSE <<Head(relay.segments) - n>> \o Tail(relay.segments)
              readErr == IF rest = <<>> /\ withEnd THEN relay.end ELSE "nil"
              sent == IF writeOk THEN n ELSE n \div 2
              ends == LoopEnds(writeOk, readErr)
          IN relay' = [relay EXCEPT
                         !.reads = @ + 1,
                         !.segments = rest,
                         !.off = @ + n,
                         !.writes = @ + 1,
                         !.client = AppendBytes(@, relay.off + 1, relay.off + sent),
                         !.maxChunk = IF n > @ THEN n ELSE @,
                         !.flushes = IF writeOk /\ Flushes(relay.strategy)
                                     THEN @ + 1 ELSE @,
                         !.failed = @ \/ ~writeOk,
                         !.atFailure = IF ~writeOk /\ ~relay.failed
                                       THEN <<relay.reads + 1, relay.writes + 1,
                                              relay.flushes>>
                                       ELSE @,
                         !.pc = IF ends THEN "done" ELSE "copying",
                         !.err = IF ~writeOk THEN "write"
                                 ELSE IF readErr \in {"nil", "EOF"} THEN "none"
                                 ELSE "read"]
  /\ UNCHANGED <<retryVars, bodyVars, frameVars, lockVars, callVars, apiVars,
                 probeVars, configVars, routerVars, healthVars, reqVars,
                 hubVars, journalVars>>


(***************************************************************************)
(* Classification of one error message.                                    *)
(***************************************************************************)
Classify ==
  /\ verdict = "none"
  /\ verdict' = IF isRetryableError(errStr) THEN "retry" ELSE "stop"
  /\ UNCHANGED <<errStr, relayVars, bodyVars, frameVars, lockVars, callVars, apiVars, probeVars, configVars, routerVars, healthVars, reqVars,
                 hubVars, journalVars>>


(***************************************************************************)
(* Configuration: LoadConfig normalizes every entry of proxy.targets.      *)
(* Strings are sequences of characters.                                    *)
(***************************************************************************)
HasPrefix(s, prefix) ==
  Len(s) >= Len(prefix) /\ SubSeq(s, 1, Len(prefix)) = prefix

HasSuffix(s, suffix) ==
  Len(s) >= Len(suffix) /\ SubSeq(s, Len(s) - Len(suffix) + 1, Len(s)) = suffix

TrimSuffix(s, suffix) ==
  IF HasSuffix(s, suffix) THEN SubSeq(s, 1, Len(s) - Len(suffix)) ELSE s

\* strings.Index for a one-character separator: 0 when it does not occur
IndexOf(s, c) ==
  IF \E i \in 1..Len(s) : s[i] = c
  THEN CHOOSE i \in 1..Len(s) : s[i] = c /\ \A j \in 1..(i - 1) : s[j] # c
  ELSE 0

\* strings.Split(s, ",")
RECURSIVE Split(_, _)
Split(s, c) ==
  IF IndexOf(s, c) = 0 THEN <<s>>
  ELSE <<SubSeq(s, 1, IndexOf(s, c) - 1)>>
         \o Split(SubSeq(s, IndexOf(s, c) + 1, Len(s)), c)

WhiteSpace == {" ", "\t", "\n", "\r"}

\* strings.TrimSpace
RECURSIVE TrimSpace(_)
TrimSpace(s) ==
  IF s = <<>> THEN s
  ELSE IF s[1] \in WhiteSpace THEN TrimSpace(Tail(s))
  ELSE IF s[Len(s)] \in WhiteSpace THEN TrimSpace(SubSeq(s, 1, Len(s) - 1))
  ELSE s

\* health_check_delay when the configuration leaves it out
DefaultHealthCheckDelay == 30

\* processTargetURLs, the comma-separated case: the trimmed entries that
\* are not blank
SplitTargetURLs(targetURL) ==
  LET NotBlank(url) == url # <<>>
  IN SelectSeq([i \in 1..Len(Split(targetURL, ",")) |->
                  TrimSpace(Split(targetURL, ",")[i])], NotBlank)

\* processTargetURLs on one entry of proxy.targets
processTargetURL(target) ==
  LET urls == IF target.TargetURL = <<>> THEN target.TargetURLs
              ELSE IF Contains(target.TargetURL, <<",">>)
              THEN target.TargetURLs \o SplitTargetURLs(target.TargetURL)
              ELSE <<target.TargetURL>>
      primary == IF /\ target.TargetURL # <<>>
                    /\ Contains(target.TargetURL, <<",">>)
                    /\ Len(urls) > 0
                 THEN urls[1] ELSE target.TargetURL
  IN [target EXCEPT
        !.TargetURLs = urls,
        !.TargetURL = primary,
        !.HealthCheckPath =
           IF @ = <<>>
           THEN (IF Contains(primary, <<"a", "p", "i">>) THEN <<>> ELSE <<"/">>)
           ELSE @,
        !.HealthCheckDelay = IF @ = 0 THEN DefaultHealthCheckDelay ELSE @]

\* processTargetURLs
processTargetURLs(targets) ==
  [i \in 1..Len(targets) |-> processTargetURL(targets[i])]

\* an entry of proxy.targets as yaml.Unmarshal leaves it
ProxyTarget(path, targetURL, methods) ==
  [Path |-> path, TargetURL |-> targetURL, TargetURLs |-> <<>>,
   HealthCheckPath |-> <<>>, HealthCheckDelay |-> 0, Methods |-> methods]

\* the values of target_url a configuration file is read with: absent, one
\* URL, lists with and without blank entries, and lists of blank entries
TargetURLStrings ==
  {<<>>,
   <<"h", "t", "t", "p", ":", "/", "/", "u", "/", "v">>,
   <<"h", "t", "t", "p", ":", "/", "/", "a", "p", "i", "/", "v">>,
   <<"h", "t", "t", "p", ":", "/", "/", "u", "/", "v", ",", "h", "t", "t", "p", ":", "/", "/", "w">>,
   <<"h", "t", "t", "p", ":", "/", "/", "u", "/", "v", ",", " ", ",", "h", "t", "t", "p", ":", "/", "/", "w", ",">>,
   <<",">>,
   <<" ", ",", " ">>}

\* the values of health_check_delay a configuration file is read with
\* (0: absent)
HealthCheckDelays == {0 - 1, 0, 1, DefaultHealthCheckDelay, 60}

RawTargets ==
  {[ProxyTarget(<<"/", "a", "p", "i", "/", "*">>, targetURL, <<>>) EXCEPT
      !.HealthCheckPath = healthPath, !.HealthCheckDelay = delay] :
     targetURL \in TargetURLStrings,
     healthPath \in {<<>>, <<"/", "h", "e", "a", "l", "t", "h">>},
     delay \in HealthCheckDelays}

\* time.NewTicker(time.Duration(delaySeconds) * time.Second): it panics
\* for a duration that is not positive
NewTicker(delaySeconds) ==
  IF delaySeconds <= 0 THEN [panic |-> TRUE, period |-> 0]
  ELSE [panic |-> FALSE, period |-> delaySeconds]

NoConfig ==
  [pc |-> "none", raw |-> ProxyTarget(<<>>, <<>>, <<>>),
   target |-> ProxyTarget(<<>>, <<>>, <<>>), probers |-> <<>>]

\* LoadConfig after yaml.Unmarshal: setDefaults (which does not touch
\* proxy.targets), then processTargetURLs
LoadConfig ==
  /\ cfg.pc = "raw"
  /\ cfg' = [cfg EXCEPT !.pc = "loaded", !.target = processTargetURL(cfg.raw)]
  /\ UNCHANGED <<retryVars, relayVars, bodyVars, frameVars, lockVars, callVars, apiVars, probeVars, routerVars,
                 healthVars, reqVars, hubVars, journalVars>>

\* NewProxyHandler: StartHealthChecks starts one runPeriodicHealthCheck per
\* URL of the entry, each of which creates its ticker
StartHealthChecks ==
  /\ cfg.pc = "loaded"
  /\ cfg' = [cfg EXCEPT
               !.pc = "started",
               !.probers = [i \in 1..Len(cfg.target.TargetURLs) |->
                              NewTicker(cfg.target.HealthCheckDelay)]]
  /\ UNCHANGED <<retryVars, relayVars, bodyVars, frameVars, lockVars, callVars, apiVars, probeVars, routerVars,
                 healthVars, reqVars, hubVars, journalVars>>

(***************************************************************************)
(* Journal (HistoryStorage).  File names are numbers in the order          *)
(* filepath.Glob lists them: the date-stamped file history_<date>.jsonl    *)
(* first, then the files history_<date>_<time>.jsonl by their second.      *)
(***************************************************************************)
DateFile == 0

StampFile(t) == t + 1

\* the serialized lengths a record can have: an ordinary line, and a line
\* that fills the scanner's buffer
LineSizes == {512, MaxTokenSize}

\* bufio.Scanner with Buffer(buf, 1024*1024) over the lines: FALSE when it
\* stops with ErrTooLong
Scannable(lines) == \A i \in 1..Len(lines) : lines[i].size < MaxTokenSize

\* the files cleanupOldFiles leaves of the existing ones
RECURSIVE OldestOf(_, _)
OldestOf(names, n) ==
  IF n = 0 \/ names = {} THEN {}
  ELSE LET first == CHOOSE x \in names : \A y \in names : x <= y
       IN {first} \cup OldestOf(names \ {first}, n - 1)

cleanupOldFiles(fs) ==
  IF Cardinality(DOMAIN fs) > MaxFiles
  THEN [f \in DOMAIN fs \ OldestOf(DOMAIN fs, Cardinality(DOMAIN fs) - MaxFiles)
          |-> fs[f]]
  ELSE fs

\* rotateFileIfNeeded: [err, filePath, files] after the call
rotateFileIfNeeded(fs, path, t) ==
  IF path \notin DOMAIN fs
  THEN [err |-> "nil", filePath |-> path, files |-> fs]
  ELSE IF ~Scannable(fs[path])
  THEN [err |-> "rotate", filePath |-> path, files |-> fs]
  ELSE IF Len(fs[path]) < MaxLines
  THEN [err |-> "nil", filePath |-> path, files |-> fs]
  ELSE [err |-> "nil", filePath |-> StampFile(t), files |-> cleanupOldFiles(fs)]

\* os.OpenFile(O_CREATE|O_APPEND) followed by Fprintf of one line
AppendLine(fs, path, line) ==
  [f \in DOMAIN fs \cup {path} |->
     IF f = path
     THEN (IF path \in DOMAIN fs THEN fs[path] ELSE <<>>) \o <<line>>
     ELSE fs[f]]

\* HistoryStorage.AppendMessage: [err, filePath, files] after the call.
\* fault is the file operation the system fails: "none", "open" or "write"
AppendMessage(fs, path, t, line, fault) ==
  LET r == rotateFileIfNeeded(fs, path, t)
  IN IF r.err # "nil" THEN r
     ELSE IF fault = "open" THEN [r EXCEPT !.err = "open"]
     ELSE IF fault = "write"
     THEN [r EXCEPT !.err = "write",
                    !.files = [f \in DOMAIN r.files \cup {r.filePath} |->
                                 IF f \in DOMAIN r.files THEN r.files[f] ELSE <<>>]]
     ELSE [r EXCEPT !.files = AppendLine(r.files, r.filePath, line)]

\* a second of wall-clock time passes
Tick ==
  /\ now < MaxClock
  /\ now' = now + 1
  /\ UNCHANGED <<retryVars, relayVars, bodyVars, frameVars, lockVars, callVars, apiVars, probeVars, configVars, routerVars, healthVars, reqVars, hubVars, files, filePath, appendErr>>


(***************************************************************************)
(* Hub.                                                                    *)
(***************************************************************************)
Clients == 1..MaxClients

Methods == {"GET", "POST"}

Statuses == {StatusOK, StatusNotFound, StatusBadGateway, StatusServiceUnavailable}

\* a variant of updateStats that counts a status from 500 on as an error and
\* a status from 400 to 499 as neither a success nor an error
updateStatsErrorFrom500(st, message) ==
  LET ok  == message.StatusCode >= 200 /\ message.StatusCode < 400
      bad == message.StatusCode >= 500
  IN [TotalRequests    |-> st.TotalRequests + 1,
      SuccessRequests  |-> IF ok THEN st.SuccessRequests + 1 ELSE st.SuccessRequests,
      ErrorRequests    |-> IF bad THEN st.ErrorRequests + 1 ELSE st.ErrorRequests,
      MethodCounts     |-> [st.MethodCounts EXCEPT ![message.Method] = @ + 1],
      StatusCodeCounts |-> [st.StatusCodeCounts EXCEPT ![message.StatusCode] = @ + 1]]

\* a variant of updateStats that counts every status below 500 as a success
updateStatsSuccessBelow500(st, message) ==
  LET ok == message.StatusCode >= 200 /\ message.StatusCode < 500
  IN [TotalRequests    |-> st.TotalRequests + 1,
      SuccessRequests  |-> IF ok THEN st.SuccessRequests + 1 ELSE st.SuccessRequests,
      ErrorRequests    |-> IF ok THEN st.ErrorRequests ELSE st.ErrorRequests + 1,
      MethodCounts     |-> [st.MethodCounts EXCEPT ![message.Method] = @ + 1],
      StatusCodeCounts |-> [st.StatusCodeCounts EXCEPT ![message.StatusCode] = @ + 1]]

\* Hub.updateStats
updateStats(st, message) ==
  LET ok == message.StatusCode >= 200 /\ message.StatusCode < 400
  IN [TotalRequests    |-> st.TotalRequests + 1,
      SuccessRequests  |-> IF ok THEN st.SuccessRequests + 1 ELSE st.SuccessRequests,
      ErrorRequests    |-> IF ok THEN st.ErrorRequests ELSE st.ErrorRequests + 1,
      MethodCounts     |-> [st.MethodCounts EXCEPT ![message.Method] = @ + 1],
      StatusCodeCounts |-> [st.StatusCodeCounts EXCEPT ![message.StatusCode] = @ + 1]]

\* Hub.GetStats: a copy of the counters and of both maps
GetStats(st) ==
  [TotalRequests    |-> st.TotalRequests,
   SuccessRequests  |-> st.SuccessRequests,
   ErrorRequests    |-> st.ErrorRequests,
   MethodCounts     |-> [k \in DOMAIN st.MethodCounts |-> st.MethodCounts[k]],
   StatusCodeCounts |-> [k \in DOMAIN st.StatusCodeCounts |-> st.StatusCodeCounts[k]]]

\* the in-memory part of Hub.addToHistory
AppendHistory(h, messageCopy) ==
  LET appended == Append(h, messageCopy)
  IN IF Len(appended) > maxHistory THEN Tail(appended) ELSE appended

\* a variant of addToHistory that returns when the Journal append failed
addToHistoryStopOnError(h, messageCopy, err) ==
  IF err = "nil" THEN AppendHistory(h, messageCopy) ELSE h

\* Hub.addToHistory after AppendMessage returned err: the error is logged,
\* the ring takes the copy all the same
addToHistory(h, messageCopy, err) == AppendHistory(h, messageCopy)

\* a variant of Offer that makes room by dropping the oldest record
OfferDropOldest(ch, message) ==
  IF Len(ch) < BroadcastSize THEN Append(ch, message)
  ELSE Append(Tail(ch), message)

\* the select of Hub.Broadcast: the channel after the record was offered
Offer(ch, message) ==
  IF Len(ch) < BroadcastSize THEN Append(ch, message) ELSE ch

\* what Hub.Broadcast does up to its select to the Hub and the Journal
BroadcastRecord(status, method, size, fault) ==
  /\ sending = <<>>
  /\ nBroadcast < MaxBroadcasts
  /\ LET st      == updateStats(stats, [StatusCode |-> status, Method |-> method])
         message == [id |-> nBroadcast + 1, StatusCode |-> status,
                     Method |-> method, size |-> size, Stats |-> GetStats(st)]
         r       == AppendMessage(files, filePath, now, message, fault)
     IN /\ stats' = st
        /\ counted' = Append(counted, [StatusCode |-> status, Method |-> method])
        /\ nBroadcast' = nBroadcast + 1
        /\ files' = r.files
        /\ filePath' = r.filePath
        /\ appendErr' = r.err
        /\ history' = addToHistory(history, message, r.err)
        /\ sending' = <<message>>
  /\ UNCHANGED <<clients, broadcast, dropped, sendTasks, removeTasks, client,
                 written, now>>

\* Hub.Broadcast up to its select: statistics, snapshot, Journal, ring
BroadcastBegin(status, method, size, fault) ==
  /\ BroadcastRecord(status, method, size, fault)
  /\ UNCHANGED <<retryVars, relayVars, bodyVars, frameVars, lockVars, calls, apiVars, probeVars, configVars, routerVars, healthVars, reqVars>>

\* a variant of ClientStatusAfterBroadcast in which a failed Journal append
\* turns the response into a 500
ClientStatusAfterFailedAppend(sent, err) ==
  IF err = "nil" THEN sent ELSE StatusInternalServerError

\* the status the client has been sent once l.hub.Broadcast was called:
\* Broadcast returns nothing and the middleware writes nothing after the
\* inner handler
ClientStatusAfterBroadcast(sent, err) == sent

\* LoggerMiddleware.ServeHTTP: the call l.hub.Broadcast(logMessage), up to
\* the select of Hub.Broadcast
LogBroadcast(size, fault) ==
  /\ reqPc = "done"
  /\ BroadcastRecord(logStatus, "GET", size, fault)
  /\ reqPc' = "broadcast"
  /\ clientStatus' = ClientStatusAfterBroadcast(clientStatus, appendErr')
  /\ UNCHANGED <<retryVars, relayVars, bodyVars, frameVars, lockVars, calls, apiVars, probeVars, configVars, routerVars, healthVars,
                 reqRoute, fastestURL, attempt, upstream, wrapped, routerError, logStatus>>

\* Hub.Broadcast and LoggerMiddleware.ServeHTTP return
LogReturn ==
  /\ reqPc = "broadcast"
  /\ sending = <<>>
  /\ reqPc' = "idle"
  /\ UNCHANGED <<retryVars, relayVars, bodyVars, frameVars, lockVars, callVars, apiVars, probeVars, configVars, routerVars, healthVars, hubVars, journalVars,
                 reqRoute, fastestURL, attempt, upstream, wrapped, clientStatus, routerError, logStatus>>

\* the select of Hub.Broadcast, after which the call returns
BroadcastSend ==
  /\ sending # <<>>
  /\ broadcast' = Offer(broadcast, sending[1])
  /\ dropped' = IF Len(broadcast) < BroadcastSize THEN dropped
                ELSE dropped \cup {sending[1].id}
  /\ sending' = <<>>
  /\ UNCHANGED <<retryVars, relayVars, bodyVars, frameVars, lockVars, callVars, apiVars, probeVars, configVars, routerVars, healthVars, reqVars, journalVars, clients, nBroadcast,
                 stats, history, sendTasks, removeTasks, client, written>>

(***************************************************************************)
(* Byte strings are kept run-length encoded: a sequence of runs            *)
(* <<byte, count>> with count >= 1 stands for the bytes of its runs in     *)
(* order.                                                                  *)
(***************************************************************************)
\* binary.BigEndian.PutUint16 / PutUint64: the n bytes of v, highest first
RECURSIVE BigEndianBytes(_, _)
BigEndianBytes(v, n) ==
  IF n = 0 THEN <<>>
  ELSE BigEndianBytes(v \div 256, n - 1) \o << <<v % 256, 1>> >>

\* the n bytes of v, lowest first
RECURSIVE LittleEndianBytes(_, _)
LittleEndianBytes(v, n) ==
  IF n = 0 THEN <<>>
  ELSE << <<v % 256, 1>> >> \o LittleEndianBytes(v \div 256, n - 1)

\* len(payload)
RECURSIVE ByteLen(_)
ByteLen(bytes) ==
  IF bytes = <<>> THEN 0 ELSE Head(bytes)[2] + ByteLen(Tail(bytes))

\* the length field of createTextFrame for a payload of payloadLen bytes
FrameLength(payloadLen) ==
  IF payloadLen < 126 THEN << <<payloadLen, 1>> >>
  ELSE IF payloadLen < 65536
  THEN << <<126, 1>> >> \o BigEndianBytes(payloadLen % 65536, 2)
  ELSE << <<127, 1>> >> \o BigEndianBytes(payloadLen, 8)

\* a variant of createTextFrame that writes the 16-bit length lowest byte
\* first
createTextFrameLittleEndian(payload) ==
  << <<129, 1>> >>
  \o (IF ByteLen(payload) >= 126 /\ ByteLen(payload) < 65536
      THEN << <<126, 1>> >> \o LittleEndianBytes(ByteLen(payload) % 65536, 2)
      ELSE FrameLength(ByteLen(payload)))
  \o payload

\* createTextFrame
createTextFrame(payload) ==
  << <<129, 1>> >> \o FrameLength(ByteLen(payload)) \o payload

\* json.Marshal(message): an object of message.size bytes, the braces
\* around bytes that depend on the record
jsonData(message) ==
  << <<123, 1>>, <<48 + message.id, message.size - 2>>, <<125, 1>> >>

\* the record with this id that Hub.Run handed to its sendMessage tasks
Dequeued(id) ==
  dequeued[CHOOSE k \in 1..Len(dequeued) : dequeued[k].message.id = id].message

\* one iteration of Hub.Run: take a record, start one send per subscriber
HubRun ==
  /\ broadcast # <<>>
  /\ hubMu = 0
  /\ sendTasks' = sendTasks \cup {<<c, Head(broadcast).id>> : c \in clients}
  /\ dequeued' = Append(dequeued, [message |-> Head(broadcast), to |-> clients])
  /\ broadcast' = Tail(broadcast)
  /\ UNCHANGED <<retryVars, relayVars, bodyVars, wire, lockVars, callVars, apiVars, probeVars, configVars, routerVars, healthVars, reqVars, journalVars, clients, nBroadcast,
                 sending, dropped, stats, history, removeTasks, client, written>>

\* Client.close
CloseClient(cl) ==
  IF ~cl.closed THEN [cl EXCEPT !.closed = TRUE, !.connClosed = TRUE] ELSE cl

\* Hub.ServeWS for a successful upgrade: register, start the reader
ServeWS(c) ==
  /\ client[c].reader = "none"
  /\ hubMu = 0
  /\ clients' = clients \cup {c}
  /\ client' = [client EXCEPT ![c].reader = "reading"]
  /\ UNCHANGED <<retryVars, relayVars, bodyVars, frameVars, lockVars, callVars, apiVars, probeVars, configVars, routerVars, healthVars, reqVars, journalVars, broadcast, nBroadcast,
                 sending, dropped, stats, history, sendTasks, removeTasks, written>>

\* the peer closes the connection or the network path breaks: from now on
\* conn.Read fails and conn.Write may fail
Disconnect(c) ==
  /\ client[c].reader # "none"
  /\ client[c].conn \in {"up", "blocked"}
  /\ client' = [client EXCEPT ![c].conn = "down"]
  /\ UNCHANGED <<retryVars, relayVars, bodyVars, frameVars, lockVars, callVars, apiVars, probeVars, configVars, routerVars, healthVars, reqVars, journalVars, clients, broadcast,
                 nBroadcast, sending, dropped, stats, history, sendTasks,
                 removeTasks, written>>

\* whether conn.Write can fail / can succeed on the connection (a write to
\* a connection the peer has closed may still be accepted by the kernel)
WriteCanFail(cl) == cl.conn = "down" \/ cl.connClosed

\* on a connection whose peer has stopped reading ("blocked") conn.Write
\* does not return
WriteCanSucceed(cl) == cl.conn # "blocked" /\ ~cl.connClosed

\* one Client.sendMessage task; ok is the result of conn.Write
SendMessage(c, id, ok) ==
  /\ <<c, id>> \in sendTasks
  /\ sendTasks' = sendTasks \ {<<c, id>>}
  /\ IF client[c].closed
     THEN /\ ok
          /\ UNCHANGED <<client, written, wire, removeTasks>>
     ELSE IF ok
     THEN /\ WriteCanSucceed(client[c])
          /\ written' = [written EXCEPT ![c] = Append(@, id)]
          /\ wire' = [wire EXCEPT ![c] = Append(@, createTextFrame(jsonData(Dequeued(id))))]
          /\ UNCHANGED <<client, removeTasks>>
     ELSE /\ WriteCanFail(client[c])
          /\ client' = [client EXCEPT ![c].closed = TRUE]
          /\ removeTasks' = removeTasks \cup {c}
          /\ UNCHANGED <<written, wire>>
  /\ UNCHANGED <<retryVars, relayVars, bodyVars, dequeued, lockVars, callVars, apiVars, probeVars, configVars, routerVars, healthVars, reqVars, journalVars, clients, broadcast,
                 nBroadcast, sending, dropped, stats, history>>

\* one Hub.removeClient task
RemoveClient(c) ==
  /\ c \in removeTasks
  /\ removeTasks' = removeTasks \ {c}
  /\ IF c \in clients
     THEN /\ clients' = clients \ {c}
          /\ client' = [client EXCEPT ![c] = CloseClient(@)]
     ELSE UNCHANGED <<clients, client>>
  /\ UNCHANGED <<retryVars, relayVars, bodyVars, frameVars, lockVars, callVars, apiVars, probeVars, configVars, routerVars, healthVars, reqVars, journalVars, broadcast, nBroadcast,
                 sending, dropped, stats, history, sendTasks, written>>

\* the reader goroutine of ServeWS: conn.Read fails, the deferred function
\* deregisters and closes
ReaderExit(c) ==
  /\ client[c].reader = "reading"
  /\ client[c].conn = "down" \/ client[c].connClosed
  /\ clients' = clients \ {c}
  /\ client' = [client EXCEPT ![c] = [CloseClient(@) EXCEPT !.reader = "exited"]]
  /\ UNCHANGED <<retryVars, relayVars, bodyVars, frameVars, lockVars, callVars, apiVars, probeVars, configVars, routerVars, healthVars, reqVars, journalVars, broadcast, nBroadcast,
                 sending, dropped, stats, history, sendTasks, removeTasks, written>>

(***************************************************************************)
(* The same tasks at the level of the locks: Hub.mu (0 = free, else the    *)
(* subscriber whose removeClient task holds it) and Client.mu (0 = free,   *)
(* else the id of the record whose sendMessage task is inside conn.Write). *)
(* Hub.Run and the registration hold Hub.mu only for map operations.       *)
(***************************************************************************)
\* the peer stops reading and the send buffer fills: conn.Write blocks
Stall(c) ==
  /\ client[c].reader # "none"
  /\ client[c].conn = "up"
  /\ client' = [client EXCEPT ![c].conn = "blocked"]
  /\ UNCHANGED <<retryVars, relayVars, bodyVars, frameVars, lockVars, callVars, apiVars, probeVars, configVars, routerVars, healthVars,
                 reqVars, journalVars, clients, broadcast, nBroadcast, sending,
                 dropped, stats, history, sendTasks, removeTasks, written>>

\* a variant of MuAfterFailedWrite: removeClient called in place, with
\* Client.mu still held
MuHeldAfterFailedWrite(id) == id

\* Client.mu when sendMessage has returned after a failed write: the
\* deferred Unlock has run, the removal is a task of its own
MuAfterFailedWrite(id) == 0

\* Client.sendMessage, from c.mu.Lock() to the call of conn.Write
SendLock(c, id) ==
  /\ <<c, id>> \in sendTasks
  /\ clientMu[c] = 0
  /\ IF client[c].closed
     THEN /\ sendTasks' = sendTasks \ {<<c, id>>}
          /\ UNCHANGED clientMu
     ELSE /\ clientMu' = [clientMu EXCEPT ![c] = id]
          /\ UNCHANGED sendTasks
  /\ UNCHANGED <<retryVars, relayVars, bodyVars, frameVars, hubMu, callVars, apiVars, probeVars, configVars, routerVars, healthVars, reqVars,
                 journalVars, clients, broadcast, nBroadcast, sending, dropped,
                 stats, history, removeTasks, client, written>>

\* Client.sendMessage, from the return of conn.Write (ok: without error) to
\* the end
SendWrite(c, ok) ==
  /\ clientMu[c] # 0
  /\ sendTasks' = sendTasks \ {<<c, clientMu[c]>>}
  /\ IF ok
     THEN /\ WriteCanSucceed(client[c])
          /\ written' = [written EXCEPT ![c] = Append(@, clientMu[c])]
          /\ wire' = [wire EXCEPT ![c] = Append(@, createTextFrame(jsonData(Dequeued(clientMu[c]))))]
          /\ clientMu' = [clientMu EXCEPT ![c] = 0]
          /\ UNCHANGED <<client, removeTasks>>
     ELSE /\ WriteCanFail(client[c])
          /\ client' = [client EXCEPT ![c].closed = TRUE]
          /\ removeTasks' = removeTasks \cup {c}
          /\ clientMu' = [clientMu EXCEPT ![c] = MuAfterFailedWrite(clientMu[c])]
          /\ UNCHANGED <<written, wire>>
  /\ UNCHANGED <<retryVars, relayVars, bodyVars, dequeued, hubMu, callVars, apiVars, probeVars, configVars, routerVars, healthVars, reqVars,
                 journalVars, clients, broadcast, nBroadcast, sending, dropped,
                 stats, history>>

\* Hub.removeClient, from h.mu.Lock() to the call of client.close()
RemoveLock(c) ==
  /\ c \in removeTasks
  /\ hubMu = 0
  /\ IF c \in clients
     THEN /\ clients' = clients \ {c}
          /\ hubMu' = c
          /\ UNCHANGED removeTasks
     ELSE /\ removeTasks' = removeTasks \ {c}
          /\ UNCHANGED <<clients, hubMu>>
  /\ UNCHANGED <<retryVars, relayVars, bodyVars, frameVars, clientMu, callVars, apiVars, probeVars, configVars, routerVars, healthVars,
                 reqVars, journalVars, broadcast, nBroadcast, sending, dropped,
                 stats, history, sendTasks, client, written>>

\* Hub.removeClient, from client.close() to the deferred h.mu.Unlock()
RemoveClose(c) ==
  /\ hubMu = c
  /\ clientMu[c] = 0
  /\ client' = [client EXCEPT ![c] = CloseClient(@)]
  /\ hubMu' = 0
  /\ removeTasks' = removeTasks \ {c}
  /\ UNCHANGED <<retryVars, relayVars, bodyVars, frameVars, clientMu, callVars, apiVars, probeVars, configVars, routerVars, healthVars,
                 reqVars, journalVars, clients, broadcast, nBroadcast, sending,
                 dropped, stats, history, sendTasks, written>>

\* the reader goroutine: conn.Read fails, the deferred function deletes the
\* subscriber under Hub.mu
ReaderDeregister(c) ==
  /\ client[c].reader = "reading"
  /\ client[c].conn = "down" \/ client[c].connClosed
  /\ hubMu = 0
  /\ clients' = clients \ {c}
  /\ client' = [client EXCEPT ![c].reader = "closing"]
  /\ UNCHANGED <<retryVars, relayVars, bodyVars, frameVars, lockVars, callVars, apiVars, probeVars, configVars, routerVars, healthVars,
                 reqVars, journalVars, broadcast, nBroadcast, sending, dropped,
                 stats, history, sendTasks, removeTasks, written>>

\* the reader goroutine: client.close() after Hub.mu was released
ReaderClose(c) ==
  /\ client[c].reader = "closing"
  /\ clientMu[c] = 0
  /\ client' = [client EXCEPT ![c] = [CloseClient(@) EXCEPT !.reader = "exited"]]
  /\ UNCHANGED <<retryVars, relayVars, bodyVars, frameVars, lockVars, callVars, apiVars, probeVars, configVars, routerVars, healthVars,
                 reqVars, journalVars, clients, broadcast, nBroadcast, sending,
                 dropped, stats, history, sendTasks, removeTasks, written>>

(***************************************************************************)
(* Hub.Broadcast called by several request tasks at once.  Each step of a  *)
(* call runs under one lock (statsMu, the Journal's mu, historyMu) or is   *)
(* the select on the channel; the steps of different calls interleave.     *)
(***************************************************************************)
Tasks == 1..MaxTasks

IdleCall == [pc |-> "idle", message |-> <<>>]

\* h.updateStats(message): the call begins and the record is counted
BroadcastUpdateStats(t, status, method) ==
  /\ calls[t].pc = "idle"
  /\ nBroadcast < MaxBroadcasts
  /\ stats' = updateStats(stats, [StatusCode |-> status, Method |-> method])
  /\ counted' = Append(counted, [StatusCode |-> status, Method |-> method])
  /\ nBroadcast' = nBroadcast + 1
  /\ calls' = [calls EXCEPT ![t] =
                 [pc |-> "GetStats",
                  message |-> [id |-> nBroadcast + 1, StatusCode |-> status,
                               Method |-> method, size |-> 512, Stats |-> <<>>]]]
  /\ UNCHANGED <<retryVars, relayVars, bodyVars, frameVars, lockVars, apiVars, probeVars, configVars, routerVars, healthVars, reqVars,
                 journalVars, clients, broadcast, sending, dropped, history,
                 sendTasks, removeTasks, client, written>>

\* message.Stats = h.GetStats()
BroadcastGetStats(t) ==
  /\ calls[t].pc = "GetStats"
  /\ calls' = [calls EXCEPT ![t].pc = "AppendMessage",
                            ![t].message.Stats = GetStats(stats)]
  /\ UNCHANGED <<retryVars, relayVars, bodyVars, frameVars, lockVars, counted, apiVars, probeVars, configVars, routerVars, healthVars,
                 reqVars, journalVars, hubVars>>

\* h.addToHistory(message), first half: historyStorage.AppendMessage
BroadcastAppendMessage(t) ==
  /\ calls[t].pc = "AppendMessage"
  /\ LET r == AppendMessage(files, filePath, now, calls[t].message, "none")
     IN /\ files' = r.files
        /\ filePath' = r.filePath
        /\ appendErr' = r.err
  /\ calls' = [calls EXCEPT ![t].pc = "history"]
  /\ UNCHANGED <<retryVars, relayVars, bodyVars, frameVars, lockVars, counted, apiVars, probeVars, configVars, routerVars, healthVars,
                 reqVars, hubVars, now>>

\* h.addToHistory(message), second half: the ring under historyMu
BroadcastAppendRing(t) ==
  /\ calls[t].pc = "history"
  /\ history' = AppendHistory(history, calls[t].message)
  /\ calls' = [calls EXCEPT ![t].pc = "select"]
  /\ UNCHANGED <<retryVars, relayVars, bodyVars, frameVars, lockVars, counted, apiVars, probeVars, configVars, routerVars, healthVars,
                 reqVars, journalVars, clients, broadcast, nBroadcast, sending,
                 dropped, stats, sendTasks, removeTasks, client, written>>

\* the select of Hub.Broadcast, after which the call returns
BroadcastSelect(t) ==
  /\ calls[t].pc = "select"
  /\ broadcast' = Offer(broadcast, calls[t].message)
  /\ dropped' = IF Len(broadcast) < BroadcastSize THEN dropped
                ELSE dropped \cup {calls[t].message.id}
  /\ calls' = [calls EXCEPT ![t] = IdleCall]
  /\ UNCHANGED <<retryVars, relayVars, bodyVars, frameVars, lockVars, counted, apiVars, probeVars, configVars, routerVars, healthVars,
                 reqVars, journalVars, clients, nBroadcast, sending, stats,
                 history, sendTasks, removeTasks, client, written>>

(***************************************************************************)
(* Reading the Journal: GetRecentMessages, and the history API in front    *)
(* of it.                                                                  *)
(***************************************************************************)
\* the loop `for i := len(lines) - 1; i >= start; i--` of
\* readMessagesFromFile: the last Len(lines) - start lines, newest first
NewestFirst(lines, start) ==
  [i \in 1..(Len(lines) - start) |-> lines[Len(lines) - i + 1]]

\* the ring buffer of readMessagesFromFile: the last 1000 lines scanned
LastLines(lines) ==
  IF Len(lines) <= TailLines THEN lines
  ELSE SubSeq(lines, Len(lines) - TailLines + 1, Len(lines))

\* HistoryStorage.readMessagesFromFile: [err, messages]
readMessagesFromFile(fs, path, limit) ==
  IF path \notin DOMAIN fs THEN [err |-> "notexist", messages |-> <<>>]
  ELSE IF ~Scannable(fs[path]) THEN [err |-> "scan", messages |-> <<>>]
  ELSE LET lines == LastLines(fs[path])
           start == IF Len(lines) > limit THEN Len(lines) - limit ELSE 0
       IN [err |-> "nil", messages |-> NewestFirst(lines, start)]

\* the loop of readFromHistoryFiles over the files not yet visited, from
\* the last name down; a file that cannot be read is skipped
RECURSIVE HistoryFilesScan(_, _, _, _, _)
HistoryFilesScan(fs, names, path, limit, messages) ==
  IF names = {} \/ Len(messages) >= limit THEN messages
  ELSE LET last == CHOOSE x \in names : \A y \in names : y <= x
           r    == readMessagesFromFile(fs, last, limit - Len(messages))
       IN IF last = path \/ r.err # "nil"
          THEN HistoryFilesScan(fs, names \ {last}, path, limit, messages)
          ELSE HistoryFilesScan(fs, names \ {last}, path, limit,
                                messages \o r.messages)

\* HistoryStorage.readFromHistoryFiles
readFromHistoryFiles(fs, path, limit) ==
  HistoryFilesScan(fs, DOMAIN fs, path, limit, <<>>)

\* HistoryStorage.GetRecentMessages: [err, messages]
GetRecentMessages(fs, path, limit) ==
  LET cur == readMessagesFromFile(fs, path, limit)
  IN IF cur.err = "scan" THEN [err |-> "read", messages |-> <<>>]
     ELSE LET messages == IF Len(cur.messages) < limit
                          THEN cur.messages
                                 \o readFromHistoryFiles(fs, path, limit - Len(cur.messages))
                          ELSE cur.messages
          IN [err |-> "nil",
              messages |-> IF Len(messages) > limit THEN SubSeq(messages, 1, limit)
                           ELSE messages]

\* Hub.GetHistory: the Hub always has a Journal (NewHub fails without one)
GetHistory(fs, path, limit) == GetRecentMessages(fs, path, limit)

\* strconv.Atoi: [err, val] for a string of characters
Digits == <<"0", "1", "2", "3", "4", "5", "6", "7", "8", "9">>

IsDigit(c) == \E d \in 1..Len(Digits) : Digits[d] = c

DigitValue(c) == (CHOOSE d \in 1..Len(Digits) : Digits[d] = c) - 1

RECURSIVE DecimalValue(_)
DecimalValue(s) ==
  IF s = <<>> THEN 0
  ELSE DecimalValue(SubSeq(s, 1, Len(s) - 1)) * 10 + DigitValue(s[Len(s)])

Atoi(s) ==
  LET signed == Len(s) >= 1 /\ s[1] \in {"-", "+"}
      digits == IF signed THEN Tail(s) ELSE s
  IN IF digits = <<>> \/ \E i \in 1..Len(digits) : ~IsDigit(digits[i])
     THEN [err |-> TRUE, val |-> 0]
     ELSE [err |-> FALSE,
           val |-> IF signed /\ s[1] = "-" THEN 0 - DecimalValue(digits)
                   ELSE DecimalValue(digits)]

\* the limit handleHistory passes on for the query parameter limit
ParseLimit(limitStr) ==
  IF limitStr # <<>> /\ ~Atoi(limitStr).err /\ Atoi(limitStr).val > 0
  THEN IF Atoi(limitStr).val > MaxLimit THEN MaxLimit ELSE Atoi(limitStr).val
  ELSE DefaultLimit

\* the values of ?limit= that are asked for (<<>>: the parameter is absent)
LimitStrs ==
  {<<>>, <<"0">>, <<"1">>, <<"2">>, <<"1","0","0">>, <<"1","0","1">>,
   <<"-","1">>, <<"a","b","c">>}

NoReply == [status |-> 0, limitStr |-> <<>>, limit |-> 0, messages |-> <<>>]

\* WebServer.handleHistory
HandleHistory(method, limitStr) ==
  /\ reply' =
       IF method # "GET"
       THEN [status |-> StatusMethodNotAllowed, limitStr |-> <<>>,
             limit |-> 0, messages |-> <<>>]
       ELSE LET limit == ParseLimit(limitStr)
                r     == GetHistory(files, filePath, limit)
            IN IF r.err # "nil"
               THEN [status |-> StatusInternalServerError, limitStr |-> limitStr,
                     limit |-> limit, messages |-> <<>>]
               ELSE [status |-> StatusOK, limitStr |-> limitStr,
                     limit |-> limit, messages |-> r.messages]
  /\ UNCHANGED <<retryVars, relayVars, bodyVars, frameVars, lockVars, callVars, nClear, clearErr, clearedAt,
                 probeVars, configVars, routerVars, healthVars, reqVars, hubVars, journalVars>>

\* a variant of FilesAfterClear that removes the current file only
FilesAfterClearCurrentOnly(fs, path) ==
  [f \in DOMAIN fs \ {path} |-> fs[f]]

\* HistoryStorage.ClearHistory without a failure: every history_*.jsonl
\* file is removed
FilesAfterClear(fs, path) == [f \in {} |-> <<>>]

\* Hub.ClearHistory: the ring is emptied, then HistoryStorage.ClearHistory
\* removes the files in the order of their names.  With fault = "remove"
\* the removal of file bad fails and the call returns the error.
ClearHistory(fault, bad) ==
  /\ nClear < MaxClears
  /\ nClear' = nClear + 1
  /\ history' = <<>>
  /\ IF fault = "remove"
     THEN /\ bad \in DOMAIN files
          /\ files' = [f \in {g \in DOMAIN files : g >= bad} |-> files[f]]
          /\ clearErr' = "remove"
          /\ UNCHANGED <<filePath, clearedAt>>
     ELSE /\ files' = FilesAfterClear(files, filePath)
          /\ filePath' = DateFile
          /\ clearErr' = "nil"
          /\ clearedAt' = nBroadcast
  /\ UNCHANGED <<retryVars, relayVars, bodyVars, frameVars, lockVars, callVars, reply, probeVars, configVars, routerVars, healthVars,
                 reqVars, clients, broadcast, nBroadcast, sending, dropped,
                 stats, sendTasks, removeTasks, client, written, now, appendErr>>

(***************************************************************************)
(* One probe cycle: performHealthCheck tries the configured path, the      *)
(* root, the common health paths and, once more, the configured path; each *)
(* try is one tryHealthCheckURL whose response the upstream decides.       *)
(***************************************************************************)
\* the values of health_check_path after processTargetURLs
HealthPaths == {"", "/", "/health", "/v1/models"}

commonPaths == <<"/health", "/ping", "/status", "/api/health">>

\* what one tryHealthCheckURL can see: 0 for no response (connection
\* failure or timeout), else the status of the response
ProbeStatuses == {0, 200, 404, 500}

\* the tries of one cycle in order, each with its strategy
ProbePlan(healthPath) ==
  LET NotConfigured(path) == path # healthPath
  IN (IF healthPath # "" /\ healthPath # "/"
      THEN <<[strategy |-> 1, path |-> healthPath]>> ELSE <<>>)
     \o (IF healthPath # "/" THEN <<[strategy |-> 2, path |-> "/"]>> ELSE <<>>)
     \o [i \in 1..Len(SelectSeq(commonPaths, NotConfigured)) |->
           [strategy |-> 3, path |-> SelectSeq(commonPaths, NotConfigured)[i]]]
     \o <<[strategy |-> 4, path |-> healthPath]>>

\* tryHealthCheckURL: isHealthy for the status it saw
tryHealthCheckURL(statusCode) == statusCode >= 200 /\ statusCode < 400

IdleProbe ==
  [pc |-> "idle", url |-> "", healthPath |-> "", plan |-> <<>>, tried |-> <<>>]

\* checkURLHealth begins: performHealthCheck lays out its tries
ProbeStart(url, healthPath) ==
  /\ probe.pc \in {"idle", "done"}
  /\ urlHealthMap[url].TotalChecks < MaxChecks
  /\ probe' = [pc |-> "probing", url |-> url, healthPath |-> healthPath,
               plan |-> ProbePlan(healthPath), tried |-> <<>>]
  /\ UNCHANGED <<retryVars, relayVars, bodyVars, frameVars, lockVars, callVars, apiVars, routerVars, configVars,
                 healthVars, reqVars, hubVars, journalVars>>

\* one try of performHealthCheck; when it decides the cycle,
\* updateHealthStatus stores the result with the time the cycle took
ProbeAttempt(statusCode, responseTime) ==
  /\ probe.pc = "probing"
  /\ LET try     == Head(probe.plan)
         decided == IF try.strategy = 4 THEN TRUE ELSE tryHealthCheckURL(statusCode)
         healthy == IF try.strategy = 4 THEN statusCode = StatusNotFound
                    ELSE tryHealthCheckURL(statusCode)
     IN IF decided
        THEN /\ probe' = [probe EXCEPT !.pc = "done", !.plan = <<>>,
                                       !.tried = Append(@, statusCode)]
             /\ urlHealthMap' =
                  [urlHealthMap EXCEPT ![probe.url] =
                     UpdatedHealth(@, healthy, responseTime)]
        ELSE /\ probe' = [probe EXCEPT !.plan = Tail(@),
                                       !.tried = Append(@, statusCode)]
             /\ UNCHANGED urlHealthMap
  /\ UNCHANGED <<retryVars, relayVars, bodyVars, frameVars, lockVars, callVars, apiVars, routerVars, configVars,
                 reqVars, hubVars, journalVars>>

(***************************************************************************)
(* The Router on strings: route matching, url.Parse, URL.String and        *)
(* buildTargetURL.  The modelled URLs have no userinfo, port or fragment.  *)
(***************************************************************************)
\* a variant of matchPath whose prefix ends before the last "/"
matchPathWithoutSlash(requestPath, targetPath) ==
  IF HasSuffix(targetPath, <<"*">>)
  THEN HasPrefix(requestPath, TrimSuffix(TrimSuffix(targetPath, <<"*">>), <<"/">>))
  ELSE requestPath = targetPath

\* ProxyHandler.matchPath
matchPath(requestPath, targetPath) ==
  IF HasSuffix(targetPath, <<"*">>)
  THEN HasPrefix(requestPath, TrimSuffix(targetPath, <<"*">>))
  ELSE requestPath = targetPath

\* a variant of matchMethod that compares the methods as they are written
matchMethodCaseSensitive(method, allowedMethods) ==
  \/ Len(allowedMethods) = 0
  \/ \E i \in 1..Len(allowedMethods) : method = allowedMethods[i]

\* ProxyHandler.matchMethod
matchMethod(method, allowedMethods) ==
  \/ Len(allowedMethods) = 0
  \/ \E i \in 1..Len(allowedMethods) : ToUpper(method) = ToUpper(allowedMethods[i])

\* the loop of findTarget from entry i on: the index of the entry it
\* returns, 0 for nil
RECURSIVE FindTargetFrom(_, _, _, _)
FindTargetFrom(targets, i, path, method) ==
  IF i > Len(targets) THEN 0
  ELSE IF matchPath(path, targets[i].Path) /\ matchMethod(method, targets[i].Methods)
  THEN i
  ELSE FindTargetFrom(targets, i + 1, path, method)

\* ProxyHandler.findTarget
findTarget(targets, path, method) == FindTargetFrom(targets, 1, path, method)

IsLetter(c) == \E i \in 1..Len(Letters) : c \in {Letters[i][1], Letters[i][2]}

\* url.getScheme from position i on: [err, scheme, rest]
RECURSIVE SchemeScan(_, _)
SchemeScan(rawURL, i) ==
  IF i > Len(rawURL) THEN [err |-> FALSE, scheme |-> <<>>, rest |-> rawURL]
  ELSE IF IsLetter(rawURL[i]) THEN SchemeScan(rawURL, i + 1)
  ELSE IF IsDigit(rawURL[i]) \/ rawURL[i] \in {"+", "-", "."}
  THEN IF i = 1 THEN [err |-> FALSE, scheme |-> <<>>, rest |-> rawURL]
       ELSE SchemeScan(rawURL, i + 1)
  ELSE IF rawURL[i] = ":"
  THEN IF i = 1 THEN [err |-> TRUE, scheme |-> <<>>, rest |-> <<>>]
       ELSE [err |-> FALSE, scheme |-> SubSeq(rawURL, 1, i - 1),
             rest |-> SubSeq(rawURL, i + 1, Len(rawURL))]
  ELSE [err |-> FALSE, scheme |-> <<>>, rest |-> rawURL]

\* the characters url.shouldEscape leaves alone in a path
PathSafe(c) ==
  \/ IsLetter(c)
  \/ IsDigit(c)
  \/ c \in {"-", "_", ".", "~", "$", "&", "+", ",", "/", ":", ";", "=", "@"}

\* the characters url.shouldEscape leaves alone in a host
HostSafe(c) ==
  \/ IsLetter(c)
  \/ IsDigit(c)
  \/ c \in {"-", "_", ".", "~", "!", "$", "&", "'", "(", ")", "*", "+", ",",
            ";", "=", ":", "[", "]", "<", ">"}

\* the percent-encodings of the characters of the modelled paths that are
\* not PathSafe
PercentCodes ==
  << <<" ", <<"%", "2", "0">>>>, <<"%", <<"%", "2", "5">>>>,
     <<"*", <<"%", "2", "A">>>>, <<"?", <<"%", "3", "F">>>> >>

\* url.escape(path, encodePath)
RECURSIVE EscapePath(_)
EscapePath(path) ==
  IF path = <<>> THEN <<>>
  ELSE (IF PathSafe(path[1]) THEN <<path[1]>>
        ELSE PercentCodes[CHOOSE k \in 1..Len(PercentCodes) :
                             PercentCodes[k][1] = path[1]][2])
       \o EscapePath(Tail(path))

\* url.unescape(path, encodePath), first pass: every % starts an escape
ValidEscapes(s) ==
  \A i \in 1..Len(s) :
     s[i] = "%" =>
        /\ i + 2 <= Len(s)
        /\ \E k \in 1..Len(PercentCodes) : PercentCodes[k][2] = SubSeq(s, i, i + 2)

\* url.unescape(path, encodePath), second pass, on a string with valid
\* escapes
RECURSIVE Unescaped(_)
Unescaped(s) ==
  IF s = <<>> THEN <<>>
  ELSE IF s[1] = "%"
  THEN <<PercentCodes[CHOOSE k \in 1..Len(PercentCodes) :
                         PercentCodes[k][2] = SubSeq(s, 1, 3)][1]>>
       \o Unescaped(SubSeq(s, 4, Len(s)))
  ELSE <<s[1]>> \o Unescaped(Tail(s))

URLError == [err |-> TRUE, Scheme |-> <<>>, Host |-> <<>>, Path |-> <<>>, RawQuery |-> <<>>]

\* strings.Cut(s, sep) for a one-character separator
Cut(s, sep) ==
  LET i == IndexOf(s, sep)
  IN IF i = 0 THEN [before |-> s, after |-> <<>>]
     ELSE [before |-> SubSeq(s, 1, i - 1), after |-> SubSeq(s, i + 1, Len(s))]

\* url.parse, last part: parseHost and setPath check and unescape
setPath(scheme, host, pathPart, rawQuery) ==
  IF (\E k \in 1..Len(host) : ~HostSafe(host[k])) \/ ~ValidEscapes(pathPart)
  THEN URLError
  ELSE [err |-> FALSE, Scheme |-> ToLower(scheme), Host |-> host,
        Path |-> Unescaped(pathPart), RawQuery |-> rawQuery]

\* url.parse for what follows the // of a URL with an authority
parseAuthority(scheme, authority, rawQuery) ==
  LET i == IndexOf(authority, "/")
  IN setPath(scheme,
             IF i = 0 THEN authority ELSE SubSeq(authority, 1, i - 1),
             IF i = 0 THEN <<>> ELSE SubSeq(authority, i, Len(authority)),
             rawQuery)

\* url.parse after the scheme and the query were cut off
parseRest(scheme, rest, rawQuery) ==
  IF ~HasPrefix(rest, <<"/">>) /\ scheme # <<>>
  THEN \* an opaque URL: no host and no path
       [err |-> FALSE, Scheme |-> ToLower(scheme), Host |-> <<>>,
        Path |-> <<>>, RawQuery |-> rawQuery]
  ELSE IF ~HasPrefix(rest, <<"/">>) /\ IndexOf(Cut(rest, "/").before, ":") # 0
  THEN URLError
  ELSE IF /\ HasPrefix(rest, <<"/", "/">>)
          /\ (scheme # <<>> \/ ~HasPrefix(rest, <<"/", "/", "/">>))
  THEN parseAuthority(scheme, SubSeq(rest, 3, Len(rest)), rawQuery)
  ELSE setPath(scheme, <<>>, rest, rawQuery)

\* url.parse after getScheme
parseAfterScheme(s, c) ==
  IF s.err THEN URLError ELSE parseRest(s.scheme, c.before, c.after)

\* url.Parse: [err, Scheme, Host, Path, RawQuery]
ParseURL(rawURL) ==
  parseAfterScheme(SchemeScan(rawURL, 1), Cut(SchemeScan(rawURL, 1).rest, "?"))

\* URL.String for a URL with Scheme, Host, Path and RawQuery
URLString(u) ==
  LET path == EscapePath(u.Path)
  IN (IF u.Scheme # <<>> THEN u.Scheme \o <<":">> ELSE <<>>)
     \o (IF (u.Scheme # <<>> \/ u.Host # <<>>) /\ (u.Host # <<>> \/ u.Path # <<>>)
         THEN <<"/", "/">> \o u.Host ELSE <<>>)
     \o (IF path # <<>> /\ path[1] # "/" /\ u.Host # <<>> THEN <<"/">> ELSE <<>>)
     \o path
     \o (IF u.RawQuery # <<>> THEN <<"?">> \o u.RawQuery ELSE <<>>)

\* buildTargetURL: the path of the final URL
finalPath(requestPath, targetPath, targetURLPath) ==
  IF HasSuffix(targetPath, <<"*">>)
  THEN (IF TrimSuffix(targetURLPath, <<"/">>) = <<>> THEN requestPath
        ELSE TrimSuffix(targetURLPath, <<"/">>) \o requestPath)
  ELSE targetURLPath

\* buildTargetURL after url.Parse(target.TargetURL) gave targetURL
finalURL(requestURL, targetPath, targetURL) ==
  IF targetURL.err THEN [err |-> TRUE, url |-> <<>>]
  ELSE [err |-> FALSE,
        url |-> URLString([Scheme |-> targetURL.Scheme, Host |-> targetURL.Host,
                           Path |-> finalPath(requestURL.Path, targetPath, targetURL.Path),
                           RawQuery |-> requestURL.RawQuery])]

\* a variant of buildTargetURL that leaves the query string out
buildTargetURLWithoutQuery(requestURL, target) ==
  finalURL([requestURL EXCEPT !.RawQuery = <<>>], target.Path, ParseURL(target.TargetURL))

\* ProxyHandler.buildTargetURL: [err, url]
buildTargetURL(requestURL, target) ==
  finalURL(requestURL, target.Path, ParseURL(target.TargetURL))

\* proxy.targets of the modelled configuration file, in declared order
RouterConfig ==
  << ProxyTarget(<<"/", "a", "p", "i", "/", "*">>, <<"h", "t", "t", "p", ":", "/", "/", "u", "/", "v">>, <<>>),
     ProxyTarget(<<"/", "a", "/", "*">>, <<"h", "t", "t", "p", ":", "/", "/", "w", "/", "b", "a", "s", "e", "/">>, <<<<"g", "e", "t">>>>),
     ProxyTarget(<<"/", "a", "/", "b">>, <<"h", "t", "t", "p", ":", "/", "/", "w", "/", "e", "x", "a", "c", "t", "/">>, <<>>),
     ProxyTarget(<<"/", "x">>, <<"h", "t", "t", "p", ":", "/", "/", "u", "/", "v", ",", " ", "h", "t", "t", "p", ":", "/", "/", "w">>, <<<<"P", "O", "S", "T">>, <<"P", "U", "T">>>>),
     ProxyTarget(<<"/", "e", "m", "p", "t", "y">>, <<>>, <<>>),
     ProxyTarget(<<"/", "b", "a", "d">>, <<":", "/", "/", "u", "/", "v">>, <<>>) >>

\* config.Proxy.Targets as LoadConfig returns it
RouterTargets == processTargetURLs(RouterConfig)

RouterURLs == UNION {Range(RouterTargets[t].TargetURLs) : t \in 1..Len(RouterTargets)}

\* the requests that arrive
RequestPaths ==
  {<<"/", "a", "p", "i", "/", "u", "s", "e", "r", "s", "/", "4", "2">>,
   <<"/", "a", "p", "i", "/">>,
   <<"/", "a", "p", "i">>,
   <<"/", "a", "/", "b">>,
   <<"/", "a", "/">>,
   <<"/", "a">>,
   <<"/", "a", "/", "b", " ", "c">>,
   <<"/", "x">>,
   <<"/", "e", "m", "p", "t", "y">>,
   <<"/", "b", "a", "d">>,
   <<"/", "n", "o", "n", "e">>}

RequestMethods == {<<"G", "E", "T">>, <<"g", "e", "t">>, <<"P", "O", "S", "T">>, <<"D", "E", "L", "E", "T", "E">>}

RequestQueries == {<<>>, <<"k", "=", "v", "&", "x", "=", "1">>}

\* LoggerMiddleware.ServeHTTP up to the call of the inner handler, for the
\* request with this path, method and query string
ReceiveRequest(path, method, rawQuery) ==
  /\ reqPc \in {"idle", "done"}
  /\ reqPc' = "routing"
  /\ request' = [Path |-> path, Method |-> method, RawQuery |-> rawQuery]
  /\ reqRoute' = 0
  /\ wrapped' = [statusCode |-> StatusOK, targetURL |-> <<>>]
  /\ clientStatus' = 0
  /\ clientBody' = <<>>
  /\ fastestURL' = <<>>
  /\ attempt' = 0
  /\ upstream' = <<>>
  /\ routerError' = 0
  /\ logStatus' = 0
  /\ logTargetURL' = <<>>
  /\ UNCHANGED <<retryVars, relayVars, bodyVars, frameVars, lockVars, callVars, apiVars, probeVars, configVars,
                 healthVars, hubVars, journalVars>>

\* ProxyHandler.ServeHTTP from findTarget to the call of
\* forwardRequestWithRetry, on the route table RouterTargets
RouteRequest ==
  /\ reqPc = "routing"
  /\ LET t == findTarget(RouterTargets, request.Path, request.Method)
     IN /\ reqRoute' = t
        /\ IF t = 0
           THEN /\ RouterError("Not Found", StatusNotFound)
                /\ UNCHANGED fastestURL
           ELSE LET url == selectFastestURL(urlHealthMap, RouterTargets[t])
                    selectedTarget == [RouterTargets[t] EXCEPT !.TargetURL = url]
                    targetURL == buildTargetURL(request, selectedTarget)
                IN /\ fastestURL' = url
                   /\ IF url = <<>>
                      THEN RouterError("Service Unavailable", StatusServiceUnavailable)
                      ELSE IF targetURL.err
                      THEN RouterError("Bad Gateway", StatusBadGateway)
                      ELSE /\ wrapped' = [wrapped EXCEPT !.targetURL = targetURL.url]
                           /\ reqPc' = "forwarding"
                           /\ UNCHANGED <<clientStatus, routerError, clientBody>>
  /\ UNCHANGED <<retryVars, relayVars, bodyVars, frameVars, lockVars, callVars, apiVars, probeVars, configVars,
                 request, logTargetURL, healthVars, hubVars, journalVars,
                 attempt, upstream, logStatus>>

(***************************************************************************)
(* Initial state: NewHealthChecker and StartHealthChecks, NewHub, and no   *)
(* request in flight.                                                      *)
(***************************************************************************)
InitHealth ==
  urlHealthMap = [u \in AllURLs |-> InitialURLHealth]

InitRequest ==
  /\ reqPc = "idle"
  /\ reqRoute = 0
  /\ fastestURL = ""
  /\ attempt = 0
  /\ upstream = <<>>
  /\ wrapped = [statusCode |-> StatusOK, targetURL |-> ""]
  /\ clientStatus = 0
  /\ routerError = 0
  /\ logStatus = 0

InitHub ==
  /\ clients = {}
  /\ broadcast = <<>>
  /\ nBroadcast = 0
  /\ sending = <<>>
  /\ dropped = {}
  /\ stats = [TotalRequests |-> 0, SuccessRequests |-> 0, ErrorRequests |-> 0,
              MethodCounts |-> [m \in Methods |-> 0],
              StatusCodeCounts |-> [s \in Statuses |-> 0]]
  /\ history = <<>>
  /\ sendTasks = {}
  /\ removeTasks = {}
  /\ client = [c \in Clients |->
                 [closed |-> FALSE, connClosed |-> FALSE, conn |-> "up",
                  reader |-> "none"]]
  /\ written = [c \in Clients |-> <<>>]

InitJournal ==
  /\ files = <<>>
  /\ filePath = DateFile
  /\ now = 0
  /\ appendErr = ""

InitLocks ==
  /\ hubMu = 0
  /\ clientMu = [c \in Clients |-> 0]

InitCalls ==
  /\ calls = [t \in Tasks |-> IdleCall]
  /\ counted = <<>>

InitApi ==
  /\ nClear = 0
  /\ clearErr = ""
  /\ clearedAt = 0
  /\ reply = NoReply

InitProbe ==
  probe = IdleProbe

NoRequest == [Path |-> <<>>, Method |-> <<>>, RawQuery |-> <<>>]

InitRouter ==
  /\ request = NoRequest
  /\ clientBody = <<>>
  /\ logTargetURL = ""

InitConfig ==
  cfg = NoConfig

InitFrames ==
  /\ dequeued = <<>>
  /\ wire = [c \in Clients |-> <<>>]

InitBody ==
  /\ rBody = NilBody
  /\ requestBody = <<>>
  /\ upstreamBodies = <<>>

InitRelay ==
  relay = IdleRelay

Init ==
  /\ errStr = <<>>
  /\ verdict = "none"
  /\ InitHealth
  /\ InitRequest
  /\ InitHub
  /\ InitJournal
  /\ InitLocks
  /\ InitCalls
  /\ InitApi
  /\ InitProbe
  /\ InitRouter
  /\ InitRelay
  /\ InitBody
  /\ InitFrames
  /\ InitConfig

(***************************************************************************)
(* Router: requests through middleware, Router and Forwarder, one after    *)
(* the other, with every outcome of every Forwarder attempt.               *)
(***************************************************************************)
Next ==
  \/ \E r \in 0..Len(Targets) : LoggerServeHTTP(r)
  \/ ProxyServeHTTP
  \/ \E o \in Outcomes : ForwardAttempt(o)
  \/ LogRequest

Spec == Init /\ [][Next]_vars

(***************************************************************************)
(* Health Monitor and Router: probes of every URL interleaved with         *)
(* requests whose upstream call succeeds.                                  *)
(***************************************************************************)
ResponseTimes == 0..MaxResponseTime

NextHealth ==
  \/ \E url \in AllURLs, isHealthy \in BOOLEAN, responseTime \in ResponseTimes :
        CheckURLHealth(url, isHealthy, responseTime)
  \/ \E r \in 1..Len(Targets) : LoggerServeHTTP(r)
  \/ ProxyServeHTTP
  \/ ForwardAttempt([kind |-> "ok", status |-> StatusOK, err |-> <<>>])
  \/ LogRequest

SpecHealth == Init /\ [][NextHealth]_vars

(***************************************************************************)
(* Classification: isRetryableError applied to one message out of a set    *)
(* of messages that contain each pattern in its own, in lower and in upper *)
(* case, bare and wrapped, and of messages that contain none.              *)
(***************************************************************************)
PatternCases ==
  UNION {{retryableErrors[k], ToLower(retryableErrors[k]), ToUpper(retryableErrors[k])} :
           k \in 1..Len(retryableErrors)}

NoPatternCases ==
  {<<>>, ErrCanceled, <<"E","O","F">>, <<"u","n","e","x","p","e","c","t","e","d"," ","E","O">>,
   <<"t","i","m","e"," ","o","u","t">>}

ErrorInputs ==
  {pre \o c \o post :
     pre \in {<<>>, HTTPClientErrorPrefix, CopyBodyErrorPrefix},
     c \in PatternCases \cup NoPatternCases,
     post \in {<<>>, <<"!">>}}

InitClassify ==
  /\ errStr \in ErrorInputs
  /\ verdict = "none"
  /\ InitHealth
  /\ InitRequest
  /\ InitHub
  /\ InitJournal
  /\ InitLocks
  /\ InitCalls
  /\ InitApi
  /\ InitProbe
  /\ InitRouter
  /\ InitRelay
  /\ InitBody
  /\ InitFrames
  /\ InitConfig

NextClassify == Classify

SpecClassify == InitClassify /\ [][NextClassify]_vars

(***************************************************************************)
(* Hub delivery to one subscriber: Broadcast calls of ordinary records,    *)
(* the dispatch loop, the send tasks, and a subscriber that connects,      *)
(* loses its connection and is torn down.                                  *)
(***************************************************************************)
NextHub ==
  \/ BroadcastBegin(StatusOK, "GET", 512, "none")
  \/ BroadcastSend
  \/ HubRun
  \/ ServeWS(1)
  \/ Disconnect(1)
  \/ \E id \in 1..MaxBroadcasts, ok \in BOOLEAN : SendMessage(1, id, ok)
  \/ RemoveClient(1)
  \/ ReaderExit(1)

SpecHub == Init /\ [][NextHub]_vars

(***************************************************************************)
(* Hub and Journal: Broadcast calls of records of every size, with and     *)
(* without file faults, with and without a subscriber, while the clock     *)
(* advances.                                                               *)
(***************************************************************************)
NextJournal ==
  \/ \E status \in {StatusOK, StatusBadGateway}, size \in LineSizes,
        fault \in {"none", "open", "write"} :
        BroadcastBegin(status, "GET", size, fault)
  \/ BroadcastSend
  \/ HubRun
  \/ ServeWS(1)
  \/ \E id \in 1..MaxBroadcasts : SendMessage(1, id, TRUE)
  \/ Tick

SpecJournal == Init /\ [][NextJournal]_vars

(***************************************************************************)
(* Fan-out at the level of the locks: several subscribers, some of which   *)
(* stop reading or lose their connection, while records are broadcast.     *)
(***************************************************************************)
NextLocks ==
  \/ BroadcastBegin(StatusOK, "GET", 512, "none")
  \/ BroadcastSend
  \/ HubRun
  \/ \E c \in Clients : ServeWS(c)
  \/ \E c \in Clients : Stall(c)
  \/ \E c \in Clients : Disconnect(c)
  \/ \E c \in Clients, id \in 1..MaxBroadcasts : SendLock(c, id)
  \/ \E c \in Clients, ok \in BOOLEAN : SendWrite(c, ok)
  \/ \E c \in Clients : RemoveLock(c)
  \/ \E c \in Clients : RemoveClose(c)
  \/ \E c \in Clients : ReaderDeregister(c)
  \/ \E c \in Clients : ReaderClose(c)

SpecLocks == Init /\ [][NextLocks]_vars

\* the same with the scheduling of the Go runtime: a removeClient task that
\* waits for Hub.mu gets it when it is free again and again (sync.Mutex
\* hands the lock to a starving waiter), and a task that can go on does
FairLocks ==
  \A c \in Clients :
     /\ SF_vars(RemoveLock(c))
     /\ WF_vars(RemoveClose(c))

SpecLocksFair == SpecLocks /\ FairLocks

(***************************************************************************)
(* Concurrent Broadcast calls: request tasks that finish at the same time  *)
(* pass their records to the Hub, with no subscriber connected.            *)
(***************************************************************************)
NextBroadcast ==
  \/ \E t \in Tasks, r \in {<<StatusOK, "GET">>, <<StatusNotFound, "POST">>} :
        BroadcastUpdateStats(t, r[1], r[2])
  \/ \E t \in Tasks : BroadcastGetStats(t)
  \/ \E t \in Tasks : BroadcastAppendMessage(t)
  \/ \E t \in Tasks : BroadcastAppendRing(t)
  \/ \E t \in Tasks : BroadcastSelect(t)
  \/ HubRun

SpecBroadcast == Init /\ [][NextBroadcast]_vars

(***************************************************************************)
(* History: records of every size are broadcast while the clock advances,  *)
(* the history is cleared (with and without a failing removal) and read    *)
(* through the API.                                                        *)
(***************************************************************************)
NextHistory ==
  \/ \E size \in LineSizes : BroadcastBegin(StatusOK, "GET", size, "none")
  \/ BroadcastSend
  \/ HubRun
  \/ Tick
  \/ ClearHistory("none", DateFile)
  \/ \E bad \in DOMAIN files : ClearHistory("remove", bad)
  \/ \E method \in Methods, limitStr \in LimitStrs : HandleHistory(method, limitStr)

SpecHistory == Init /\ [][NextHistory]_vars

(***************************************************************************)
(* Probing: probe cycles of the URL of the single-URL Route with every     *)
(* configured path and every sequence of upstream answers.                 *)
(***************************************************************************)
NextProbe ==
  \/ \E url \in Range(Targets[2].TargetURLs), healthPath \in HealthPaths :
        ProbeStart(url, healthPath)
  \/ \E statusCode \in ProbeStatuses, responseTime \in ResponseTimes \ {0} :
        ProbeAttempt(statusCode, responseTime)

SpecProbe == Init /\ [][NextProbe]_vars

(***************************************************************************)
(* Routing: requests with every modelled path, method and query string     *)
(* through the middleware and the Router on the route table RouterTargets, *)
(* whose URLs StartHealthChecks has registered.                            *)
(***************************************************************************)
InitRouting ==
  /\ errStr = <<>>
  /\ verdict = "none"
  /\ urlHealthMap = [u \in RouterURLs |-> InitialURLHealth]
  /\ InitRequest
  /\ InitHub
  /\ InitJournal
  /\ InitLocks
  /\ InitCalls
  /\ InitApi
  /\ InitProbe
  /\ InitRouter
  /\ InitRelay
  /\ InitBody
  /\ InitFrames
  /\ InitConfig

NextRouter ==
  \/ \E path \in RequestPaths, method \in RequestMethods, rawQuery \in RequestQueries :
        ReceiveRequest(path, method, rawQuery)
  \/ RouteRequest
  \/ \E o \in {[kind |-> "ok", status |-> StatusOK, err |-> <<>>],
               [kind |-> "doErr", status |-> 0, err |-> HTTPClientErrorPrefix \o ErrCanceled]} :
        ForwardAttempt(o)
  \/ LogRequest

SpecRouter == InitRouting /\ [][NextRouter]_vars

(***************************************************************************)
(* Frames: records of two sizes are broadcast   to two subscribers, whose  *)
(* writes succeed or fail.                                                 *)
(***************************************************************************)
FrameSizes == {512, 65536}

NextFrame ==
  \/ \E size \in FrameSizes : BroadcastBegin(StatusOK, "GET", size, "none")
  \/ BroadcastSend
  \/ HubRun
  \/ \E c \in {1, 2} : ServeWS(c)
  \/ \E c \in {1, 2} : Disconnect(c)
  \/ \E c \in {1, 2}, id \in 1..MaxBroadcasts, ok \in BOOLEAN : SendMessage(c, id, ok)
  \/ \E c \in {1, 2} : RemoveClient(c)

SpecFrame == Init /\ [][NextFrame]_vars

(***************************************************************************)
(* Request bodies: requests with every modelled Body through middleware,   *)
(* Router and Forwarder, with every outcome of every Forwarder attempt.    *)
(***************************************************************************)
NextBody ==
  \/ \E r \in 1..Len(Targets), body \in ClientBodies : ReceiveBody(r, body)
  \/ ProxyServeHTTP
  \/ \E o \in Outcomes : ForwardBody(o)
  \/ LogRequest

SpecBody == Init /\ [][NextBody]_vars

(***************************************************************************)
(* Response bodies: upstream responses with every modelled Content-Type,   *)
(* Transfer-Encoding, Content-Length and body are copied to a client whose *)
(* writes succeed or fail.                                                 *)
(***************************************************************************)
ContentTypes ==
  {<<>>,
   <<"a","p","p","l","i","c","a","t","i","o","n","/","j","s","o","n">>,
   <<"t","e","x","t","/","e","v","e","n","t","-","s","t","r","e","a","m">>,
   <<"t","e","x","t","/","e","v","e","n","t","-","s","t","r","e","a","m",";"," ","c","h","a","r","s","e","t","=","u","t","f","-","8">>,
   <<"a","p","p","l","i","c","a","t","i","o","n","/","x","-","n","d","j","s","o","n">>,
   <<"t","e","x","t","/","p","l","a","i","n",";"," ","c","h","a","r","s","e","t","=","u","t","f","-","8">>}

TransferEncodings == {<<>>, Chunked}

\* the upstream body as the segments its Read calls can return
BodySegments == {<<>>, <<64>>, <<65>>, <<1, 1100>>, <<2049>>}

NextRelay ==
  \/ \E contentType \in ContentTypes, transferEncoding \in TransferEncodings,
        flusher \in BOOLEAN, segments \in BodySegments, end \in {"EOF", "err"},
        known \in BOOLEAN :
        RelayStart(contentType, transferEncoding,
                   IF known THEN SumSeq(segments) ELSE -1, flusher, segments, end)
  \/ \E writeOk \in BOOLEAN, withEnd \in BOOLEAN : RelayStep(writeOk, withEnd)

SpecRelay == Init /\ [][NextRelay]_vars

(***************************************************************************)
(* Logging: requests one after the other through middleware, Router and    *)
(* Forwarder with every outcome, each logged through Hub.Broadcast.        *)
(***************************************************************************)
\* the outcomes with an upstream status of 200 and a cause that is
\* retried (connection reset) or not (context canceled)
LoggedOutcomes ==
  {o \in Outcomes :
     /\ o.status # StatusBadGateway
     /\ \A prefix \in {HTTPClientErrorPrefix, CopyBodyErrorPrefix} :
           o.err # prefix \o ErrUnexpectedEOF}

NextLog ==
  \/ \E r \in 0..Len(Targets) : reqPc = "idle" /\ LoggerServeHTTP(r)
  \/ ProxyServeHTTP
  \/ \E o \in LoggedOutcomes : ForwardAttempt(o)
  \/ LogRequest
  \/ LogBroadcast(512, "none")
  \/ BroadcastSend
  \/ LogReturn
  \/ HubRun

SpecLog == Init /\ [][NextLog]_vars

(***************************************************************************)
(* Observation: requests go through middleware, Router and Forwarder one   *)
(* after the other; each is broadcast, with and without a failing Journal  *)
(* write, while a subscriber registers, is sent frames (with and without a *)
(* failing write) and deregisters.                                         *)
(***************************************************************************)
ObservedOutcomes ==
  {o \in Outcomes :
     /\ o.status # StatusBadGateway
     /\ o.err \in {<<>>, HTTPClientErrorPrefix \o ErrCanceled}}

NextObserve ==
  \/ \E r \in {0, Len(Targets)} : reqPc = "idle" /\ LoggerServeHTTP(r)
  \/ ProxyServeHTTP
  \/ \E o \in ObservedOutcomes : ForwardAttempt(o)
  \/ LogRequest
  \/ \E fault \in {"none", "write"} : LogBroadcast(512, fault)
  \/ BroadcastSend
  \/ LogReturn
  \/ HubRun
  \/ ServeWS(1)
  \/ Disconnect(1)
  \/ \E id \in 1..MaxBroadcasts, ok \in BOOLEAN : SendMessage(1, id, ok)
  \/ RemoveClient(1)
  \/ ReaderExit(1)

SpecObserve == Init /\ [][NextObserve]_vars

(***************************************************************************)
(* Statistics: successes and errors of both methods are broadcast while    *)
(* the history is read and cleared through the API and a subscriber        *)
(* registers, is sent frames (with and without a failing write) and        *)
(* deregisters.                                                            *)
(***************************************************************************)
NextStats ==
  \/ \E r \in {<<StatusOK, "GET">>, <<StatusNotFound, "POST">>, <<StatusBadGateway, "GET">>} :
        BroadcastBegin(r[1], r[2], 512, "none")
  \/ BroadcastSend
  \/ HubRun
  \/ ClearHistory("none", DateFile)
  \/ HandleHistory("GET", <<"1">>)
  \/ ServeWS(1)
  \/ Disconnect(1)
  \/ \E id \in 1..MaxBroadcasts, ok \in BOOLEAN : SendMessage(1, id, ok)
  \/ RemoveClient(1)
  \/ ReaderExit(1)

SpecStats == Init /\ [][NextStats]_vars

(***************************************************************************)
(* Start-up: one entry of proxy.targets, with every target_url and every   *)
(* health_check_delay, is normalized and its probers are started.          *)
(***************************************************************************)
InitStartup ==
  /\ errStr = <<>>
  /\ verdict = "none"
  /\ InitHealth
  /\ InitRequest
  /\ InitHub
  /\ InitJournal
  /\ InitLocks
  /\ InitCalls
  /\ InitApi
  /\ InitProbe
  /\ InitRouter
  /\ InitRelay
  /\ InitBody
  /\ InitFrames
  /\ cfg \in {[NoConfig EXCEPT !.pc = "raw", !.raw = t, !.target = t] : t \in RawTargets}

NextStartup ==
  \/ LoadConfig
  \/ StartHealthChecks

SpecStartup == InitStartup /\ [][NextStartup]_vars


(***************************************************************************)
(* Properties.                                                             *)
(***************************************************************************)
IsOrdered(seq) == \A i, j \in 1..Len(seq) : i < j => seq[i] < seq[j]

Connected == {c \in Clients : client[c].reader # "none"}

\* C1: a single subscriber that stays registered and open has the frames of
\* the enqueued records written to its connection in the order of the
\* Broadcast calls, for every interleaving of the send tasks.
C1_FramesInBroadcastOrder ==
  \A c \in Clients :
     (/\ Connected = {c}
      /\ c \in clients
      /\ ~client[c].closed
      /\ client[c].conn = "up"
      /\ dropped = {})
     => IsOrdered(written[c])

\* C2: for a completed request the status_code of the LogRecord equals the
\* status sent to the client: the first status written to the underlying
\* response writer, or 200 if none was written.
C2_LogStatusIsSentStatus ==
  reqPc = "done" =>
     logStatus = (IF clientStatus = 0 THEN StatusOK ELSE clientStatus)

\* the classification C3 states: the message contains one of the seven
\* substrings, compared without regard to case
ContainsAnyCase(msg) ==
  \E k \in 1..Len(retryableErrors) :
     Contains(ToLower(msg), ToLower(retryableErrors[k]))

\* C3: isRetryableError(err) is true if and only if the message, compared
\* case-insensitively, contains at least one of the seven substrings.
C3_RetryableIffPattern ==
  verdict # "none" => ((verdict = "retry") <=> ContainsAnyCase(errStr))

\* C4: the Forwarder is invoked at most max_retries + 1 times; the loop
\* stops at the first success and right after a non-retryable error,
\* retries after every retryable error while attempts remain, and the
\* Router answers 502 only when no attempt succeeded.
C4_RetryPolicy ==
  (reqPc \in {"handled", "done"} /\ reqRoute # 0) =>
     LET n == Len(upstream)
     IN /\ n <= MaxRetries + 1
        /\ \A i \in 1..(n - 1) :
              upstream[i].kind # "ok" /\ ContainsAnyCase(upstream[i].err)
        /\ (n >= 1 /\ upstream[n].kind # "ok" /\ ContainsAnyCase(upstream[n].err))
              => n = MaxRetries + 1
        /\ routerError = StatusBadGateway
              => \A i \in 1..n : upstream[i].kind # "ok"

MarkedHealthy(url) == url \in DOMAIN urlHealthMap /\ urlHealthMap[url].IsHealthy

MarkedUnhealthy(url) == url \in DOMAIN urlHealthMap /\ ~urlHealthMap[url].IsHealthy

\* C5: when the Route of a request has at least one URL marked healthy at
\* the time of selection, the URL the Router takes for the request is not
\* one marked unhealthy at that time.
C5_NeverDispatchUnhealthy ==
  [][(/\ reqPc = "routing"
      /\ reqPc' = "forwarding"
      /\ \E u \in Range(Targets[reqRoute].TargetURLs) : MarkedHealthy(u))
     => ~MarkedUnhealthy(fastestURL')]_vars

\* C5 witness: a request of the two-URL Route was routed to B while A is
\* marked unhealthy and B healthy.
C5_Witness ==
  /\ reqPc = "forwarding"
  /\ upstream = <<>>
  /\ reqRoute = 1
  /\ fastestURL = "B"
  /\ MarkedUnhealthy("A")
  /\ MarkedHealthy("B")

\* the preferred metric as C6 states it: the rolling average once there is
\* a successful probe, the last response time before
PreferredMetric(health) ==
  IF health.SuccessChecks >= 1 THEN health.AverageTime ELSE health.ResponseTime

\* C6: with a URLHealth record for every URL of a multi-URL Route,
\* GetFastestHealthyURL returns a healthy URL of minimal preferred metric
\* among the healthy URLs of the Route, and the first URL when none is
\* healthy.
C6_FastestHealthy ==
  \A t \in 1..Len(Targets) :
     LET urls    == Targets[t].TargetURLs
         healthy == {u \in Range(urls) : MarkedHealthy(u)}
         chosen  == GetFastestHealthyURL(urlHealthMap, urls)
     IN (Len(urls) > 1 /\ Range(urls) \subseteq DOMAIN urlHealthMap) =>
           IF healthy = {}
           THEN chosen = urls[1]
           ELSE /\ chosen \in healthy
                /\ \A u \in healthy :
                      PreferredMetric(urlHealthMap[chosen])
                         <= PreferredMetric(urlHealthMap[u])

\* C6 witness: both URLs are healthy with successful probes, B has the
\* smaller rolling average, and a request was routed to B.
C6_Witness ==
  /\ reqPc = "forwarding"
  /\ upstream = <<>>
  /\ reqRoute = 1
  /\ fastestURL = "B"
  /\ MarkedHealthy("A")
  /\ MarkedHealthy("B")
  /\ urlHealthMap["A"].SuccessChecks >= 1
  /\ urlHealthMap["B"].SuccessChecks >= 1
  /\ urlHealthMap["B"].AverageTime < urlHealthMap["A"].AverageTime

C8_FullChannelDropsNewest ==
  /\ [](sending # <<>> => ENABLED BroadcastSend)
  /\ [][(sending # <<>> /\ sending' = <<>> /\ Len(broadcast) = BroadcastSize)
        => (broadcast' = broadcast /\ dropped' = dropped \cup {sending[1].id})]_vars

\* C8 witness: a record was dropped and the channel still holds
\* broadcast_size older records.
C8_Witness ==
  /\ dropped # {}
  /\ Len(broadcast) = BroadcastSize
  /\ \A i \in 1..Len(broadcast) : \A d \in dropped : broadcast[i].id < d

\* C9: every record passed to Broadcast is appended to the Journal as
\* exactly one line when file I/O succeeds, whether the channel takes it or
\* drops it and whether or not a subscriber is connected.  Stated for the
\* record of the call in progress: with no file operation failed, its line
\* is the last line of the current file and no other line carries it.
C9_EveryRecordJournaled ==
  (sending # <<>> /\ appendErr \notin {"open", "write"}) =>
     /\ filePath \in DOMAIN files
     /\ Len(files[filePath]) >= 1
     /\ files[filePath][Len(files[filePath])] = sending[1]
     /\ \A f \in DOMAIN files :
           \A i \in 1..Len(files[f]) :
              files[f][i].id = sending[1].id => (f = filePath /\ i = Len(files[f]))

\* C10: once a subscriber's reader and teardown tasks have finished after a
\* failed write or a peer close, the subscriber is marked closed, is out of
\* the registry, and the server has closed its connection.
C10_TornDownSubscriberClosed ==
  \A c \in Clients :
     (/\ client[c].reader = "exited"
      /\ c \notin removeTasks
      /\ \A t \in sendTasks : t[1] # c)
     => /\ client[c].closed
        /\ c \notin clients
        /\ client[c].connClosed

Open(c) == ~client[c].closed /\ client[c].conn = "up"

\* C11, the dispatch loop: whenever a record waits in the channel, Hub.Run
\* can take it, or the removeClient task that holds Hub.mu can finish
DispatchNotStalled ==
  broadcast # <<>> =>
     \/ ENABLED HubRun
     \/ \E c \in Clients : hubMu = c /\ ENABLED RemoveClose(c)

\* C11, the sends: a pending send to a subscriber that is open can take
\* Client.mu, or the send holding Client.mu can finish its write
SendsNotStalled ==
  \A t \in sendTasks :
     Open(t[1]) =>
        IF clientMu[t[1]] = 0 THEN ENABLED SendLock(t[1], t[2])
        ELSE ENABLED SendWrite(t[1], TRUE)

\* C11: whatever the other subscribers do (stop reading, fail on write, be
\* torn down), the dispatch loop is never stalled, every dequeued record is
\* sent to every registered subscriber, no send to an open subscriber is
\* stalled, and a send to an open subscriber ends only by writing its
\* record.
C11_OthersStillServed ==
  /\ [](DispatchNotStalled /\ SendsNotStalled)
  /\ [][/\ (broadcast # <<>> /\ broadcast' = Tail(broadcast))
             => \A c \in clients : <<c, Head(broadcast).id>> \in sendTasks'
        /\ \A t \in sendTasks \ sendTasks' :
              Open(t[1]) => written'[t[1]] = Append(written[t[1]], t[2])]_vars

\* C11 witness: subscriber 1 has stopped reading and a send to it is stuck
\* inside conn.Write, and subscriber 2 has been written two records since.
C11_Witness ==
  /\ client[1].conn = "blocked"
  /\ clientMu[1] = 1
  /\ Open(2)
  /\ Range(written[2]) = {1, 2}

\* the records that carry a Statistics snapshot: those of the calls past
\* GetStats, and those in the ring, the channel and the Journal
Snapshots ==
  {calls[t].message : t \in {u \in Tasks : calls[u].pc \in {"AppendMessage", "history", "select"}}}
  \cup Range(history) \cup Range(broadcast) \cup (IF sending = <<>> THEN {} ELSE {sending[1]})
  \cup UNION {Range(files[f]) : f \in DOMAIN files}

\* how many of the first k counted records satisfy P
CountOf(k, P(_)) == Cardinality({i \in 1..k : P(counted[i])})

IsSuccess(status) == status >= 200 /\ status < 400

\* C12: the snapshot attached to the record counted k-th is of a state
\* where the first k records, hence the record itself, have been counted:
\* total_requests, the record's bucket, its method counter and its
\* status-code counter are at least what those k records add up to.
C12_SnapshotCountsRecord ==
  \A m \in Snapshots :
     LET SameBucket(r) == IsSuccess(r.StatusCode) <=> IsSuccess(m.StatusCode)
         SameMethod(r) == r.Method = m.Method
         SameStatus(r) == r.StatusCode = m.StatusCode
     IN /\ m.id <= Len(counted)
        /\ counted[m.id] = [StatusCode |-> m.StatusCode, Method |-> m.Method]
        /\ m.Stats.TotalRequests >= m.id
        /\ (IF IsSuccess(m.StatusCode) THEN m.Stats.SuccessRequests
            ELSE m.Stats.ErrorRequests) >= CountOf(m.id, SameBucket)
        /\ m.Stats.MethodCounts[m.Method] >= CountOf(m.id, SameMethod)
        /\ m.Stats.StatusCodeCounts[m.StatusCode] >= CountOf(m.id, SameStatus)

\* C12 witness: two calls overlap; the record counted first carries a
\* snapshot taken after the second was counted, and the second is a 404.
C12_Witness ==
  \E m \in Snapshots :
     /\ m.id = 1
     /\ m.Stats.TotalRequests = 2
     /\ m.Stats.ErrorRequests = 1
     /\ \E t \in Tasks : calls[t].pc = "GetStats"

\* the lines of the Journal, oldest first: the files in the order of
\* their names, each from its first line to its last
RECURSIVE JournalSeq(_)
JournalSeq(fs) ==
  IF DOMAIN fs = {} THEN <<>>
  ELSE LET first == CHOOSE x \in DOMAIN fs : \A y \in DOMAIN fs : x <= y
       IN fs[first] \o JournalSeq([f \in DOMAIN fs \ {first} |-> fs[f]])

PosIn(seq, id) == CHOOSE i \in 1..Len(seq) : seq[i].id = id

IdsOf(seq) == {seq[i].id : i \in 1..Len(seq)}

\* C13: two records that are both in the ring and in the Journal are in
\* the same relative order in both.
C13_RingAndJournalSameOrder ==
  \A a, b \in IdsOf(history) \cap IdsOf(JournalSeq(files)) :
     (PosIn(history, a) < PosIn(history, b))
        <=> (PosIn(JournalSeq(files), a) < PosIn(JournalSeq(files), b))

\* the limits handleHistory can pass to Hub.GetHistory, sampled
Limits == {1, 2, DefaultLimit, MaxLimit}

\* C14: once ClearHistory has returned without error, GetHistory(n)
\* returns, for every n, only records appended after that call.
C14_ClearedRecordsNeverReturned ==
  \A n \in Limits :
     \A m \in Range(GetHistory(files, filePath, n).messages) : m.id > clearedAt

\* C14 witness: records were appended, the history was cleared without
\* error, a record was appended after it and the API has returned it.
C14_Witness ==
  /\ clearErr = "nil"
  /\ clearedAt >= 1
  /\ reply.status = StatusOK
  /\ reply.messages # <<>>
  /\ \A i \in 1..Len(reply.messages) : reply.messages[i].id > clearedAt

\* C15: right after a ClearHistory that returned without error, before
\* any further append, the data directory holds exactly one journal file,
\* the current one, and it has no lines.
C15_OneFreshFileAfterClear ==
  (nClear >= 1 /\ clearErr = "nil" /\ nBroadcast = clearedAt) =>
     /\ DOMAIN files = {filePath}
     /\ files[filePath] = <<>>

\* C16: GET /api/history?limit=0 answers an empty array, limit=101 at most
\* 100 records, and no answer has more than 100 records.
C16_LimitZeroEmptyAndAtMost100 ==
  reply.status = StatusOK =>
     /\ Len(reply.messages) <= MaxLimit
     /\ reply.limitStr = <<"0">> => reply.messages = <<>>

\* C17: for 1 <= limit <= 100, GetHistory(limit) returns without error the
\* min(limit, records on disk) most recently appended records of the
\* Journal, newest first.
C17_NewestFirstAcrossFiles ==
  \A n \in Limits :
     LET r    == GetHistory(files, filePath, n)
         disk == IdsOf(JournalSeq(files))
         k    == IF n < Cardinality(disk) THEN n ELSE Cardinality(disk)
     IN /\ r.err = "nil"
        /\ Len(r.messages) = k
        /\ \A i, j \in 1..Len(r.messages) :
              i < j => r.messages[i].id > r.messages[j].id
        /\ \A i \in 1..Len(r.messages) :
              Cardinality({d \in disk : d > r.messages[i].id}) = i - 1

\* C18: the data directory never holds more than max_files journal files.
C18_AtMostMaxFiles == Cardinality(DOMAIN files) <= MaxFiles

\* C19: in every URLHealth record successful_checks <= total_checks and
\* 0 <= rolling average <= max response time.
C19_HealthCountersConsistent ==
  \A u \in DOMAIN urlHealthMap :
     /\ urlHealthMap[u].SuccessChecks <= urlHealthMap[u].TotalChecks
     /\ 0 <= urlHealthMap[u].AverageTime
     /\ urlHealthMap[u].AverageTime <= urlHealthMap[u].MaxTime

\* C19 witness: a URL was probed healthy twice with different response
\* times and another was probed unhealthy with a positive response time.
C19_Witness ==
  /\ urlHealthMap["A"].SuccessChecks = 2
  /\ urlHealthMap["A"].AverageTime < urlHealthMap["A"].MaxTime
  /\ urlHealthMap["B"].SuccessChecks < urlHealthMap["B"].TotalChecks
  /\ urlHealthMap["B"].MaxTime > 0

\* C20: a finished probe cycle has marked the URL healthy if some try
\* returned a status in [200, 400), and otherwise exactly if every try of
\* the cycle returned status 404.
C20_HealthyIffOkOrAll404 ==
  probe.pc = "done" =>
     LET someOk == \E i \in 1..Len(probe.tried) :
                      probe.tried[i] >= 200 /\ probe.tried[i] < 400
         all404 == \A i \in 1..Len(probe.tried) : probe.tried[i] = StatusNotFound
     IN urlHealthMap[probe.url].IsHealthy <=> (someOk \/ all404)

\* the request has been through ProxyHandler.ServeHTTP up to the Forwarder
Routed == reqPc \in {"forwarding", "handled", "done"}

\* C21: for a request that matched a Route the target URL is on the
\* response-writer wrapper from the moment the Router has decided, whether
\* or not the Forwarder runs, and the LogRecord's target_url is not empty.
C21_TargetURLPublished ==
  (Routed /\ reqRoute # 0) =>
     /\ wrapped.targetURL # <<>>
     /\ reqPc = "done" => logTargetURL # <<>>

\* C22: a Forwarder call whose body copy failed is the last upstream call
\* of its request, and after it nothing more is written to the client: no
\* status, no error body.
C22_BodyCopyFailureOnlyLogged ==
  \A i \in 1..Len(upstream) :
     upstream[i].kind = "copyErr" =>
        /\ i = Len(upstream)
        /\ routerError = 0
        /\ clientBody # <<>>
        /\ clientBody[Len(clientBody)] = "part of upstream body"

\* what the Forwarder calls wrote to the body of the response, in order
RECURSIVE RelayedBody(_)
RelayedBody(outcomes) ==
  IF outcomes = <<>> THEN <<>>
  ELSE BodyWritten(Head(outcomes)) \o RelayedBody(Tail(outcomes))

\* the status of the first Forwarder call that wrote one, 0 if none did
RECURSIVE RelayedStatus(_)
RelayedStatus(outcomes) ==
  IF outcomes = <<>> THEN 0
  ELSE IF Head(outcomes).kind # "doErr" THEN Head(outcomes).status
  ELSE RelayedStatus(Tail(outcomes))

\* the response as Router, selection and upstream outcomes determine it
RoutedResponse ==
  IF reqRoute = 0
  THEN [status |-> StatusNotFound, body |-> <<"Not Found">>]
  ELSE IF fastestURL = ""
  THEN [status |-> StatusServiceUnavailable, body |-> <<"Service Unavailable">>]
  ELSE [status |-> IF RelayedStatus(upstream) # 0 THEN RelayedStatus(upstream)
                   ELSE StatusBadGateway,
        body   |-> RelayedBody(upstream) \o
                   (IF upstream[Len(upstream)].kind = "ok" THEN <<>>
                    ELSE <<"Bad Gateway">>)]

C24_BroadcastSurvivesJournalFailure ==
  /\ []((sending # <<>> /\ appendErr \notin {"", "nil"}) =>
          /\ history # <<>>
          /\ history[Len(history)] = sending[1]
          /\ ENABLED BroadcastSend)
  /\ [][(sending # <<>> /\ appendErr \notin {"", "nil"} /\ sending' # sending) =>
          /\ sending' = <<>>
          /\ IF Len(broadcast) < BroadcastSize
             THEN broadcast' = Append(broadcast, sending[1])
             ELSE broadcast' = broadcast /\ sending[1].id \in dropped'
          /\ history' = history]_vars

\* C24 witness: a Broadcast call whose Journal write failed has returned;
\* its record is the newest of the ring and is in the channel.
C24_Witness ==
  /\ appendErr = "write"
  /\ sending = <<>>
  /\ nBroadcast >= 1
  /\ history # <<>>
  /\ history[Len(history)].id = nBroadcast
  /\ \E k \in 1..Len(broadcast) : broadcast[k].id = nBroadcast

\* the sum of the counters of a map of Statistics
RECURSIVE SumCounts(_, _)
SumCounts(counts, keys) ==
  IF keys = {} THEN 0
  ELSE LET k == CHOOSE x \in keys : TRUE
       IN counts[k] + SumCounts(counts, keys \ {k})

\* C30: no step decreases a counter of Statistics, and in every state
\* total_requests = success_requests + error_requests = the sum of the
\* per-status counters = the sum of the per-method counters = the number
\* of Broadcast calls counted so far.
C30_StatisticsMonotoneAndConsistent ==
  /\ [](/\ stats.TotalRequests = stats.SuccessRequests + stats.ErrorRequests
        /\ stats.TotalRequests = SumCounts(stats.StatusCodeCounts, DOMAIN stats.StatusCodeCounts)
        /\ stats.TotalRequests = SumCounts(stats.MethodCounts, DOMAIN stats.MethodCounts)
        /\ stats.TotalRequests = nBroadcast
        /\ stats.TotalRequests = Len(counted))
  /\ [][/\ stats'.TotalRequests >= stats.TotalRequests
        /\ stats'.SuccessRequests >= stats.SuccessRequests
        /\ stats'.ErrorRequests >= stats.ErrorRequests
        /\ \A k \in DOMAIN stats.StatusCodeCounts :
              /\ k \in DOMAIN stats'.StatusCodeCounts
              /\ stats'.StatusCodeCounts[k] >= stats.StatusCodeCounts[k]
        /\ \A k \in DOMAIN stats.MethodCounts :
              /\ k \in DOMAIN stats'.MethodCounts
              /\ stats'.MethodCounts[k] >= stats.MethodCounts[k]]_vars

\* C30 witness: two records were counted, a success and an error, the
\* history was cleared after them and the subscriber has deregistered.
C30_Witness ==
  /\ stats.TotalRequests = 2
  /\ stats.SuccessRequests = 1
  /\ stats.StatusCodeCounts[StatusNotFound] = 1
  /\ nClear >= 1
  /\ clearedAt = 2
  /\ client[1].closed

\* the match of a path as C25 states it
ClaimPathMatch(routePath, requestPath) ==
  IF routePath # <<>> /\ routePath[Len(routePath)] = "*"
  THEN /\ Len(requestPath) >= Len(routePath) - 1
       /\ \A k \in 1..(Len(routePath) - 1) : requestPath[k] = routePath[k]
  ELSE requestPath = routePath

\* C25: matchPath holds of a Route and a request path exactly if the
\* match-path ends in * and the request path starts with the rest of it,
\* or the two are identical; /a/* matches /a/b and /a/ but not /a.
C25_WildcardIsPrefixMatch ==
  /\ Routed =>
        /\ \A i \in 1..Len(RouterTargets) :
              matchPath(request.Path, RouterTargets[i].Path)
                 <=> ClaimPathMatch(RouterTargets[i].Path, request.Path)
        /\ reqRoute # 0 => ClaimPathMatch(RouterTargets[reqRoute].Path, request.Path)
  /\ matchPath(<<"/", "a", "/", "b">>, <<"/", "a", "/", "*">>)
  /\ matchPath(<<"/", "a", "/">>, <<"/", "a", "/", "*">>)
  /\ ~matchPath(<<"/", "a">>, <<"/", "a", "/", "*">>)

\* C25 witness: the request path /a/ was routed to the Route /a/*.
C25_Witness ==
  /\ reqPc = "forwarding"
  /\ request.Path = <<"/", "a", "/">>
  /\ RouterTargets[reqRoute].Path = <<"/", "a", "/", "*">>

\* the match of a Route as C26 states it
ClaimRouteMatch(i) ==
  /\ ClaimPathMatch(RouterTargets[i].Path, request.Path)
  /\ \/ RouterTargets[i].Methods = <<>>
     \/ \E k \in 1..Len(RouterTargets[i].Methods) :
           ToLower(RouterTargets[i].Methods[k]) = ToLower(request.Method)

\* C26: the Router takes the first Route in declared order whose path
\* matches and whose method list is empty or holds the method in any case;
\* with no such Route the client gets 404 Not Found and no upstream call is
\* made.
C26_FirstMatchOr404 ==
  Routed =>
     IF \E i \in 1..Len(RouterTargets) : ClaimRouteMatch(i)
     THEN /\ reqRoute # 0
          /\ ClaimRouteMatch(reqRoute)
          /\ \A j \in 1..(reqRoute - 1) : ~ClaimRouteMatch(j)
          /\ routerError # StatusNotFound
     ELSE /\ reqRoute = 0
          /\ clientStatus = StatusNotFound
          /\ clientBody = <<"Not Found">>
          /\ upstream = <<>>

\* C26 witness: POST /a/b passed over the Route /a/* (methods: get) and was
\* routed to the Route /a/b declared after it.
C26_Witness ==
  /\ reqPc = "forwarding"
  /\ request.Path = <<"/", "a", "/", "b">>
  /\ request.Method = <<"P", "O", "S", "T">>
  /\ reqRoute = 3
  /\ ClaimPathMatch(RouterTargets[2].Path, request.Path)

\* C27 as stated: the built URL has the upstream's scheme and host, the
\* upstream base path followed by the client path for a wildcard Route and
\* the upstream base path alone for an exact Route, and the client's query
\* string.
C27_BasePathThenClientPath ==
  (reqPc = "forwarding" /\ upstream = <<>>) =>
     LET up    == ParseURL(fastestURL)
         built == ParseURL(wrapped.targetURL)
     IN /\ ~built.err
        /\ built.Scheme = up.Scheme
        /\ built.Host = up.Host
        /\ built.Path = (IF HasSuffix(RouterTargets[reqRoute].Path, <<"*">>)
                         THEN up.Path \o request.Path ELSE up.Path)
        /\ built.RawQuery = request.RawQuery

\* C27 amended: for a wildcard Route the path is the upstream base path
\* without a trailing slash followed by the client path.
C27_TrimmedBasePathThenClientPath ==
  (reqPc = "forwarding" /\ upstream = <<>>) =>
     LET up    == ParseURL(fastestURL)
         built == ParseURL(wrapped.targetURL)
     IN /\ ~built.err
        /\ built.Scheme = up.Scheme
        /\ built.Host = up.Host
        /\ built.Path = (IF HasSuffix(RouterTargets[reqRoute].Path, <<"*">>)
                         THEN TrimSuffix(up.Path, <<"/">>) \o request.Path
                         ELSE up.Path)
        /\ built.RawQuery = request.RawQuery
        /\ (reqRoute = 1 /\ request.Path = <<"/", "a", "p", "i", "/", "u", "s", "e", "r", "s", "/", "4", "2">>)
              => wrapped.targetURL = <<"h", "t", "t", "p", ":", "/", "/", "u", "/", "v", "/", "a", "p", "i", "/", "u", "s", "e", "r", "s", "/", "4", "2">> \o
                    (IF request.RawQuery = <<>> THEN <<>> ELSE <<"?">> \o request.RawQuery)

\* C27 witness: /api/users/42?k=v&x=1 was routed by the Route /api/* to
\* http://u/v/api/users/42?k=v&x=1.
C27_Witness ==
  /\ reqPc = "forwarding"
  /\ reqRoute = 1
  /\ request.Path = <<"/", "a", "p", "i", "/", "u", "s", "e", "r", "s", "/", "4", "2">>
  /\ wrapped.targetURL = <<"h", "t", "t", "p", ":", "/", "/", "u", "/", "v", "/", "a", "p", "i", "/", "u", "s", "e", "r", "s", "/", "4", "2", "?", "k", "=", "v", "&", "x", "=", "1">>

\* C28: after LoadConfig the list of upstream URLs of the entry is not
\* empty, whatever target_url the file gave.
C28_URLListNonEmpty ==
  cfg.pc \in {"loaded", "started"} => Len(cfg.target.TargetURLs) >= 1

\* C29: every prober that StartHealthChecks starts runs, with a period of
\* at least 1 second, and of 30 seconds when health_check_delay was absent
\* or zero.
C29_ProberPeriodAtLeastOneSecond ==
  cfg.pc = "started" =>
     \A i \in 1..Len(cfg.probers) :
        /\ ~cfg.probers[i].panic
        /\ cfg.probers[i].period >= 1
        /\ cfg.raw.HealthCheckDelay = 0 =>
              cfg.probers[i].period = DefaultHealthCheckDelay

\* the i-th byte of a byte string
RECURSIVE ByteAt(_, _)
ByteAt(bytes, i) ==
  IF i <= Head(bytes)[2] THEN Head(bytes)[1]
  ELSE ByteAt(Tail(bytes), i - Head(bytes)[2])

\* a byte string without its first k bytes
RECURSIVE DropBytes(_, _)
DropBytes(bytes, k) ==
  IF k = 0 \/ bytes = <<>> THEN bytes
  ELSE IF Head(bytes)[2] <= k THEN DropBytes(Tail(bytes), k - Head(bytes)[2])
  ELSE << <<Head(bytes)[1], Head(bytes)[2] - k>> >> \o Tail(bytes)

\* the run-length encoding with no two neighbouring runs of the same byte
RECURSIVE Canonical(_)
Canonical(bytes) ==
  IF Len(bytes) < 2 THEN bytes
  ELSE IF bytes[1][1] = bytes[2][1]
  THEN Canonical(<< <<bytes[1][1], bytes[1][2] + bytes[2][2]>> >> \o Tail(Tail(bytes)))
  ELSE <<bytes[1]>> \o Canonical(Tail(bytes))

\* frame is byte 0x81, the length n of the payload in the 7-bit, 16-bit or
\* 64-bit form, and the payload
WellFramed(frame, payload, n) ==
  /\ ByteAt(frame, 1) = 129
  /\ IF n < 126
     THEN /\ ByteAt(frame, 2) = n
          /\ Canonical(DropBytes(frame, 2)) = Canonical(payload)
     ELSE IF n < 65536
     THEN /\ ByteAt(frame, 2) = 126
          /\ ByteAt(frame, 3) * 256 + ByteAt(frame, 4) = n
          /\ Canonical(DropBytes(frame, 4)) = Canonical(payload)
     ELSE /\ ByteAt(frame, 2) = 127
          /\ \A i \in 3..6 : ByteAt(frame, i) = 0
          /\ ByteAt(frame, 7) < 128
          /\ ((ByteAt(frame, 7) * 256 + ByteAt(frame, 8)) * 256
                + ByteAt(frame, 9)) * 256 + ByteAt(frame, 10) = n
          /\ Canonical(DropBytes(frame, 10)) = Canonical(payload)
  /\ ByteLen(payload) = n

\* payload lengths around the limits of the three forms
FrameLens == {0, 1, 125, 126, 127, 65535, 65536, 65537, MaxTokenSize}

\* a payload of n bytes
PayloadOf(n) == IF n = 0 THEN <<>> ELSE << <<120, n>> >>

\* C31: createTextFrame(payload) is the byte 0x81, the payload length in
\* one byte below 126, as 126 and two bytes big-endian below 65536, as 127
\* and eight bytes big-endian otherwise, then the payload; and every record
\* Hub.Run took from the channel gives exactly one such frame on the
\* connection of every subscriber that was registered then and is open
\* when its send has run.
C31_OneTextFramePerRecordAndSubscriber ==
  /\ \A n \in FrameLens : WellFramed(createTextFrame(PayloadOf(n)), PayloadOf(n), n)
  /\ \A c \in Clients :
        /\ Len(wire[c]) = Len(written[c])
        /\ \A k \in 1..Len(written[c]) :
              /\ \E d \in 1..Len(dequeued) :
                    /\ dequeued[d].message.id = written[c][k]
                    /\ c \in dequeued[d].to
                    /\ WellFramed(wire[c][k], jsonData(dequeued[d].message),
                                  dequeued[d].message.size)
              /\ \A j \in 1..Len(written[c]) : written[c][j] = written[c][k] => j = k
  /\ \A d \in 1..Len(dequeued) :
        \A c \in dequeued[d].to :
           (<<c, dequeued[d].message.id>> \notin sendTasks /\ ~client[c].closed)
              => \E k \in 1..Len(written[c]) : written[c][k] = dequeued[d].message.id

\* C31 witness: two records of different sizes were dequeued with both
\* subscribers registered, and each subscriber's connection carries two
\* frames.
C31_Witness ==
  /\ Len(dequeued) = 2
  /\ dequeued[1].message.size # dequeued[2].message.size
  /\ \A c \in {1, 2} : c \in dequeued[1].to /\ Len(wire[c]) = 2

\* C32: every probe update raises total_checks by one and stores the
\* response time; a healthy probe also raises successful_checks by one, sets
\* the consecutive error count to 0 and the rolling average to
\* (avg*(n-1) + t) / n with n the new successful count; an unhealthy probe
\* raises the consecutive error count by one and leaves successful_checks
\* and the rolling average as they were.
C32_ProbeUpdate ==
  [][\A u \in DOMAIN urlHealthMap :
       urlHealthMap'[u] # urlHealthMap[u] =>
          LET old == urlHealthMap[u]
              new == urlHealthMap'[u]
              n   == old.SuccessChecks + 1
          IN /\ new.TotalChecks = old.TotalChecks + 1
             /\ IF new.IsHealthy
                THEN /\ new.SuccessChecks = n
                     /\ new.ErrorCount = 0
                     /\ new.AverageTime =
                          (old.AverageTime * (n - 1) + new.ResponseTime) \div n
                ELSE /\ new.ErrorCount = old.ErrorCount + 1
                     /\ new.SuccessChecks = old.SuccessChecks
                     /\ new.AverageTime = old.AverageTime]_vars

\* C33: every attempt of the Forwarder, the first and every retry, sends
\* upstream exactly the bytes of the client's request body: reading the
\* body in one attempt leaves it whole for the next.
C33_EveryAttemptSendsWholeBody ==
  /\ Len(upstreamBodies) = Len(upstream)
  /\ \A i \in 1..Len(upstreamBodies) : upstreamBodies[i] = requestBody

\* C33 witness: a request with a body of two bytes is in its third attempt.
C33_Witness ==
  /\ requestBody = <<1, 2>>
  /\ Len(upstreamBodies) = 3

\* C34: in the SSE and in the byte streaming loop the first failed write to
\* the client ends the loop: nothing more is read from the upstream body,
\* nothing more is written or flushed, and the function returns an error.
C34_FailedWriteEndsStreaming ==
  (relay.strategy \in {"sse", "bytes"} /\ relay.failed) =>
     /\ relay.pc = "done"
     /\ relay.err = "write"
     /\ <<relay.reads, relay.writes, relay.flushes>> = relay.atFailure
     /\ relay.flushes = relay.writes - 1

\* C34 witness: the SSE loop had a write fail after a write that succeeded,
\* with more of the upstream body to come.
C34_Witness ==
  /\ relay.strategy = "sse"
  /\ relay.failed
  /\ relay.writes > 1
  /\ relay.segments # <<>>

\* the copy strategy the specification names for a response
ClaimStrategy(r) ==
  IF ~r.flusher THEN "copy"
  ELSE IF Contains(r.contentType, TextEventStream) THEN "sse"
  ELSE IF \/ Contains(r.contentType, NDJSON)
          \/ Contains(r.contentType, TextPlain)
          \/ Contains(r.transferEncoding, Chunked)
          \/ r.contentLength = -1
  THEN "bytes"
  ELSE "copy"

\* C35: a response whose Content-Type contains text/event-stream is copied
\* in reads of at most 1 KiB with a flush after each; else one whose
\* Content-Type contains application/x-ndjson or text/plain, or whose
\* Transfer-Encoding is chunked, or whose Content-Length is unknown, in
\* reads of at most 64 bytes with a flush after each; every other response,
\* and every response to a writer that cannot flush, by a buffered copy
\* without flushes.  In all three the client's bytes are the upstream
\* body's bytes in order: a prefix during the copy, all of them when the
\* copy ends without error.
C35_CopyStrategyAndBytes ==
  relay.pc # "idle" =>
     /\ relay.strategy = ClaimStrategy(relay)
     /\ relay.strategy = "sse" => relay.maxChunk <= 1024
     /\ relay.strategy = "bytes" => relay.maxChunk <= 64
     /\ relay.flushes = IF relay.strategy = "copy" THEN 0
                        ELSE IF relay.failed THEN relay.writes - 1
                        ELSE relay.writes
     /\ \/ relay.client = <<>>
        \/ /\ Len(relay.client) = 1
           /\ relay.client[1][1] = 1
           /\ relay.client[1][2] <= relay.off
     /\ (~relay.failed /\ relay.off > 0) => relay.client = << <<1, relay.off>> >>
     /\ (relay.pc = "done" /\ relay.err = "none") =>
           /\ relay.off = relay.total
           /\ relay.end = "EOF"

\* C35 witness: a body of 2049 bytes with Content-Type text/plain and a
\* known length has reached the client whole in reads of 64 bytes.
C35_Witness ==
  /\ relay.pc = "done"
  /\ relay.err = "none"
  /\ relay.strategy = "bytes"
  /\ relay.contentLength = 2049
  /\ relay.client = << <<1, 2049>> >>
  /\ relay.maxChunk = 64
  /\ relay.flushes = 33

WritingAttempts == {i \in 1..Len(upstream) : upstream[i].kind # "doErr"}

\* C37: an attempt is followed by another only if it wrote nothing to the
\* client, so the client gets the status and body of at most one upstream
\* response, and never part of a body followed by another response or by
\* the Router's error body.
C37_RetryOnlyIfNothingWritten ==
  /\ \A i \in WritingAttempts : i = Len(upstream)
  /\ routerError # 0 => WritingAttempts = {}

\* C38: a record the Journal has accepted never makes its later operations
\* fail: whatever the sizes of the records in the current file, the next
\* AppendMessage succeeds when file I/O does, GetRecentMessages succeeds,
\* and the newest record is read back.
C38_AcceptedRecordNeverBreaksJournal ==
  (filePath \in DOMAIN files /\ files[filePath] # <<>>) =>
     LET newest == files[filePath][Len(files[filePath])]
     IN /\ AppendMessage(files, filePath, now, newest, "none").err = "nil"
        /\ GetRecentMessages(files, filePath, 1).err = "nil"
        /\ GetRecentMessages(files, filePath, 1).messages = <<newest>>

\* C40: the snapshot of a record is taken atomically with counting it: the
\* record counted k-th carries total_requests = k, and no two records carry
\* the same total_requests, also when Broadcast calls run concurrently.
C40_SnapshotAtomicWithCount ==
  /\ \A m \in Snapshots : m.Stats.TotalRequests = m.id
  /\ \A m1, m2 \in Snapshots :
        m1.id # m2.id => m1.Stats.TotalRequests # m2.Stats.TotalRequests

\* C39, the locks: the only task that waits for one lock while it holds
\* another is removeClient, which holds Hub.mu and takes Client.mu; then
\* Client.mu is free, and a Client.mu that is held is held by a send task
\* that is still running
NoCyclicWait ==
  \A c \in Clients :
     /\ hubMu = c => (c \in removeTasks /\ ENABLED RemoveClose(c))
     /\ clientMu[c] # 0 => <<c, clientMu[c]>> \in sendTasks

=============================================================================
